---- MODULE Spec2Model ----
(***************************************************************************)
(* A model of xtctool: the page-range resolver (utils/pages.py), the asset *)
(* graph and its orchestrator (assets/*.py, cli/convert.py) and the XTC    *)
(* container codec (core/xtc.py).  Text is modelled as sequences of        *)
(* one-character strings, bytes as sequences of integers 0..255.           *)
(***************************************************************************)
EXTENDS Integers, Sequences, FiniteSets, TLC

VARIABLES
    \* parse_page_range harness
    prTokens,      \* the tokens the spec text was written from (ghost input)
    prSpec,        \* the spec text handed to parse_page_range
    prTotal,       \* total_pages
    prOut,         \* what parse_page_range returned or raised
    prPc,          \* "start" | "done"
    \* parse_page_spec harness
    psPath,        \* the path handed to parse_page_spec
    psOut,         \* the pair it returned
    psPc,          \* "start" | "done"
    \* XTC container: one writer, one file, one fresh reader
    xcWriter,      \* the XTCWriter as constructed
    xcFrames,      \* the frame_data_list handed to write
    xcFile,        \* the bytes of the written file
    xcReader,      \* the XTCReader's fields, .frames holding what read returned
    xcPc,          \* "start" | "written" | "read" | "reread" | "raised"
    xcAgain,       \* the second file the same reader decoded, <<>> before
    \* asset harness: one source asset and what its conversions return
    asCfg,         \* the config handed to convert
    asRoot,        \* the source asset as the caller built it
    asWork,        \* the assets still to be converted, next first
    asProduced,    \* every asset a conversion has returned, in order
    asLast,        \* the last conversion: its source and its result
    asPc,          \* "build" | "converting" | "done" | "raised"
    asTemps,       \* the temporary files that exist
    \* the convert command
    orCfg,         \* the loaded configuration
    orMode,        \* "xtc" | "single_pages"
    orNow,         \* time.time() when the output is written
    orSources,     \* the source paths of the command line
    orStack,       \* the worklist, its top last
    orFrames,      \* the frame list
    orWriter,      \* the XTCWriter that write_xtc constructed
    orOutput,      \* the files written
    orPc,          \* "running" | "done" | "raised"
    orProcessed,   \* processed_count
    orPushed,      \* how many assets have been put on the worklist so far
    orLast,        \* the asset of the last turn of the loop and what became of it
    \* the file system both read from
    disk,          \* the bytes of each file that is read as bytes, by path
    \* the chapter builder: one page sequence, one chapter list
    chPages,       \* per page, the TocEntry list the page carries (<<>>: none)
    chOut,         \* the chapter list the builder returned
    chPc,          \* "start" | "done"
    \* the frame codec harness (core/xth.py, core/xtg.py)
    fcFormat,      \* "xth" or "xtg"
    fcWriter,      \* the writer: [width, height]
    fcGrid,        \* pixel_values, a sequence of rows
    fcBlob,        \* the encoded frame
    fcImage,       \* what the reader returned
    fcPc,          \* "idle", "start", "encoded", "decoded"
    \* the decoder harness: one buffer handed to one decoder
    dcKind,        \* "xth", "xtg" or "xtc": the decoder
    dcData,        \* the buffer
    dcOut,         \* what the decoder returned or that it raised
    dcPc,          \* "idle", "start", "decoded"
    \* the quantizer harness (algo/dithering.py)
    dtInput,       \* the array the caller hands over, as it was at the call
    dtHeap,        \* the arrays that exist, by identity; the caller's is the first
    dtLevels,      \* the levels argument
    dtStrength,    \* dither_strength, in sixteenths
    dtOut,         \* what floyd_steinberg_dither returned
    dtPc           \* "idle", "start", "done"

pagesVars == <<prTokens, prSpec, prTotal, prOut, prPc>>
pathVars == <<psPath, psOut, psPc>>
xtcVars == <<xcWriter, xcFrames, xcFile, xcReader, xcPc, xcAgain>>

assetVars == <<asCfg, asRoot, asWork, asProduced, asLast, asPc, asTemps>>
orchVars ==
    <<orCfg, orMode, orNow, orSources, orStack, orFrames, orWriter, orOutput, orPc,
      orProcessed, orPushed, orLast>>

chapVars == <<chPages, chOut, chPc>>

frameVars == <<fcFormat, fcWriter, fcGrid, fcBlob, fcImage, fcPc>>

decVars == <<dcKind, dcData, dcOut, dcPc>>

ditherVars == <<dtInput, dtHeap, dtLevels, dtStrength, dtOut, dtPc>>

vars == <<pagesVars, pathVars, xtcVars, assetVars, orchVars, disk, chapVars, frameVars, decVars, ditherVars>>

(***************************************************************************)
(* Bounds of the model.                                                    *)
(***************************************************************************)
MaxTokens == 2
MaxPages == 3
MaxBodyLen == 3
MaxFrames == 2
MaxSources == 2
MaxChapterPages == 3
MaxWidth == 9
MaxHeight == 9

(***************************************************************************)
(* Helpers on sequences.                                                   *)
(***************************************************************************)
RangeSeq(a, b) == [i \in 1..(b - a + 1) |-> a + i - 1]

SeqRange(s) == {s[i] : i \in 1..Len(s)}

Drop(s, n) == SubSeq(s, n + 1, Len(s))

Take(s, n) == SubSeq(s, 1, n)

\* The element of a one-element set: The({F(x) : x \in {e}}) is F(e), with e
\* evaluated once
The(S) == CHOOSE x \in S : TRUE

RECURSIVE Flatten(_)
Flatten(ss) == IF ss = <<>> THEN <<>> ELSE Head(ss) \o Flatten(Tail(ss))

(***************************************************************************)
(* Python string primitives used by utils/pages.py.                        *)
(***************************************************************************)
Digits == {"0", "1", "2", "3", "4", "5", "6", "7", "8", "9"}

Whitespace == {" "}

DigitValue(c) ==
    CASE c = "0" -> 0 [] c = "1" -> 1 [] c = "2" -> 2 [] c = "3" -> 3
      [] c = "4" -> 4 [] c = "5" -> 5 [] c = "6" -> 6 [] c = "7" -> 7
      [] c = "8" -> 8 [] c = "9" -> 9

\* str.find: the first index of character c from position `from`, 0 if none
RECURSIVE FindFrom(_, _, _)
FindFrom(s, c, from) ==
    IF from > Len(s) THEN 0
    ELSE IF s[from] = c THEN from
    ELSE FindFrom(s, c, from + 1)

\* str.rfind: the last index of character c, 0 if none
RECURSIVE RFind(_, _, _)
RFind(s, c, upto) ==
    IF upto < 1 THEN 0
    ELSE IF s[upto] = c THEN upto
    ELSE RFind(s, c, upto - 1)

\* str.split(c): all the pieces between occurrences of c
RECURSIVE SplitAll(_, _)
SplitAll(s, c) ==
    LET i == FindFrom(s, c, 1)
    IN IF i = 0 THEN <<s>>
       ELSE <<Take(s, i - 1)>> \o SplitAll(Drop(s, i), c)

\* str.split(c, 1): at most one split, at the first occurrence
SplitFirst(s, c) ==
    LET i == FindFrom(s, c, 1)
    IN IF i = 0 THEN <<s>> ELSE <<Take(s, i - 1), Drop(s, i)>>

\* str.rsplit(c, 1): at most one split, at the last occurrence
RSplitLast(s, c) ==
    LET i == RFind(s, c, Len(s))
    IN IF i = 0 THEN <<s>> ELSE <<Take(s, i - 1), Drop(s, i)>>

RECURSIVE LStrip(_)
LStrip(s) ==
    IF s # <<>> /\ Head(s) \in Whitespace THEN LStrip(Tail(s)) ELSE s

RECURSIVE RStrip(_)
RStrip(s) ==
    IF s # <<>> /\ s[Len(s)] \in Whitespace THEN RStrip(Take(s, Len(s) - 1)) ELSE s

Strip(s) == LStrip(RStrip(s))

StartsWith(s, p) == Len(s) >= Len(p) /\ Take(s, Len(p)) = p

RECURSIVE DigitsValue(_, _)
DigitsValue(s, acc) ==
    IF s = <<>> THEN acc ELSE DigitsValue(Tail(s), 10 * acc + DigitValue(Head(s)))

\* int(text): surrounding whitespace is ignored, one sign is allowed, the rest
\* must be a non-empty run of digits; anything else raises ValueError.
PyInt(text) ==
    LET s == Strip(text)
        signed == s # <<>> /\ Head(s) \in {"-", "+"}
        body == IF signed THEN Tail(s) ELSE s
        ok == body # <<>> /\ \A i \in 1..Len(body) : body[i] \in Digits
    IN IF ~ok THEN [ok |-> FALSE, val |-> 0]
       ELSE [ok |-> TRUE,
             val |-> IF signed /\ Head(s) = "-" THEN 0 - DigitsValue(body, 0)
                     ELSE DigitsValue(body, 0)]

(***************************************************************************)
(* utils/pages.py: parse_page_range.                                       *)
(***************************************************************************)
\* One comma-separated part: the pages it adds, or ValueError from int().
ParsePart(raw, total_pages) ==
    LET part == Strip(raw)
    IN IF StartsWith(part, <<"-">>) /\ Len(part) > 1
       THEN LET end == PyInt(Tail(part))
            IN [ok |-> end.ok,
                pages |-> IF end.ok THEN RangeSeq(1, end.val) ELSE <<>>]
       ELSE IF part # <<>> /\ FindFrom(Tail(part), "-", 1) # 0
       THEN LET lr == SplitFirst(Tail(part), "-")
                left == <<part[1]>> \o lr[1]
                right == lr[2]
                start == PyInt(left)
                end == IF right # <<>> THEN PyInt(right)
                       ELSE [ok |-> TRUE, val |-> total_pages]
            IN [ok |-> start.ok /\ end.ok,
                pages |-> IF start.ok /\ end.ok
                          THEN RangeSeq(start.val, end.val) ELSE <<>>]
       ELSE LET n == PyInt(part)
            IN [ok |-> n.ok, pages |-> IF n.ok THEN <<n.val>> ELSE <<>>]

RECURSIVE ParseParts(_, _)
ParseParts(parts, total_pages) ==
    IF parts = <<>> THEN [ok |-> TRUE, pages |-> <<>>]
    ELSE LET first == ParsePart(Head(parts), total_pages)
             rest == ParseParts(Tail(parts), total_pages)
         IN [ok |-> first.ok /\ rest.ok, pages |-> first.pages \o rest.pages]

\* The variant that sorts what it kept.
RECURSIVE SortedSeq(_)
SortedSeq(S) ==
    IF S = {} THEN <<>>
    ELSE LET m == CHOOSE x \in S : \A y \in S : x <= y
         IN <<m>> \o SortedSeq(S \ {m})

ValidPagesSorted(pages, total_pages, seen) ==
    SortedSeq({p \in SeqRange(pages) : 1 <= p /\ p <= total_pages})

\* The closing loop: keep a page when it is in range and not seen before.
RECURSIVE ValidPages(_, _, _)
ValidPages(pages, total_pages, seen) ==
    IF pages = <<>> THEN <<>>
    ELSE LET p == Head(pages)
         IN IF 1 <= p /\ p <= total_pages /\ p \notin seen
            THEN <<p>> \o ValidPages(Tail(pages), total_pages, seen \cup {p})
            ELSE ValidPages(Tail(pages), total_pages, seen)

\* parse_page_range(spec, total_pages): [raised, pages]
parse_page_range(spec, total_pages) ==
    LET got == ParseParts(SplitAll(spec, ","), total_pages)
    IN IF ~got.ok THEN [raised |-> TRUE, pages |-> <<>>]
       ELSE [raised |-> FALSE, pages |-> ValidPages(got.pages, total_pages, {})]

(***************************************************************************)
(* utils/pages.py: parse_page_spec.                                        *)
(***************************************************************************)
UrlPrefixes ==
    {<<"h", "t", "t", "p", ":", "/", "/">>,
     <<"h", "t", "t", "p", "s", ":", "/", "/">>,
     <<"f", "t", "p", ":", "/", "/">>}

NoSpec(path) == [path |-> path, has_spec |-> FALSE, spec |-> <<>>]

\* The variant that splits at the first colon instead of the last.
parse_page_spec_first_colon(path) ==
    IF \E u \in UrlPrefixes : StartsWith(path, u) THEN NoSpec(path)
    ELSE IF FindFrom(path, ":", 1) # 0
    THEN LET parts == SplitFirst(path, ":")
         IN IF Len(parts) = 2 /\ parts[2] # <<>>
               /\ \E i \in 1..Len(parts[2]) : parts[2][i] \in Digits
            THEN [path |-> parts[1], has_spec |-> TRUE, spec |-> parts[2]]
            ELSE NoSpec(path)
    ELSE NoSpec(path)

\* parse_page_spec(path): (file_path, page_spec or None)
parse_page_spec(path) ==
    IF \E u \in UrlPrefixes : StartsWith(path, u) THEN NoSpec(path)
    ELSE IF FindFrom(path, ":", 1) # 0
    THEN LET parts == RSplitLast(path, ":")
         IN IF Len(parts) = 2 /\ parts[2] # <<>>
               /\ \E i \in 1..Len(parts[2]) : parts[2][i] \in Digits
            THEN [path |-> parts[1], has_spec |-> TRUE, spec |-> parts[2]]
            ELSE NoSpec(path)
    ELSE NoSpec(path)

(***************************************************************************)
(* core/xtc.py: the byte layout of the XTC container.                      *)
(***************************************************************************)
XTC_MAGIC == 4412504
XTC_VERSION == 256
HEADER_SIZE == 48
METADATA_SIZE == 256
CHAPTER_SIZE == 96
INDEX_ENTRY_SIZE == 16
NO_COVER == 65535

\* struct.pack('<B' | '<H' | '<I' | '<Q', n): k little-endian bytes
RECURSIVE PackLE(_, _)
PackLE(n, k) == IF k = 0 THEN <<>> ELSE <<n % 256>> \o PackLE(n \div 256, k - 1)

\* struct.unpack of the same formats
RECURSIVE UnpackLE(_)
UnpackLE(bytes) ==
    IF bytes = <<>> THEN 0 ELSE Head(bytes) + 256 * UnpackLE(Tail(bytes))

Zeros(n) == [i \in 1..n |-> 0]

Min(a, b) == IF a <= b THEN a ELSE b

\* data[a:b], with Python's 0-based, end-exclusive, clipped slice
Slice(data, a, b) == SubSeq(data, a + 1, Min(b, Len(data)))

\* str.encode('utf-8') for code points below 0x800
RECURSIVE Utf8Encode(_)
Utf8Encode(cps) ==
    IF cps = <<>> THEN <<>>
    ELSE LET c == Head(cps)
         IN (IF c < 128 THEN <<c>> ELSE <<192 + (c \div 64), 128 + (c % 64)>>)
            \o Utf8Encode(Tail(cps))

\* bytes.decode('utf-8', errors='ignore') for the same range: a byte that does
\* not start a complete sequence is skipped
RECURSIVE Utf8DecodeIgnore(_)
Utf8DecodeIgnore(bytes) ==
    IF bytes = <<>> THEN <<>>
    ELSE LET b == Head(bytes)
         IN IF b < 128 THEN <<b>> \o Utf8DecodeIgnore(Tail(bytes))
            ELSE IF /\ b >= 194 /\ b < 224 /\ Len(bytes) >= 2
                    /\ bytes[2] >= 128 /\ bytes[2] < 192
            THEN <<(b - 192) * 64 + (bytes[2] - 128)>> \o Utf8DecodeIgnore(Drop(bytes, 2))
            ELSE Utf8DecodeIgnore(Tail(bytes))

\* text.encode('utf-8')[:size - 1] padded with NULs to size bytes
FixedField(text, size) ==
    LET bytes == Take(Utf8Encode(text), Min(Len(Utf8Encode(text)), size - 1))
    IN bytes \o Zeros(size - Len(bytes))

\* field.split(b'\x00', 1)[0].decode('utf-8', errors='ignore')
ReadField(field) ==
    LET i == FindFrom(field, 0, 1)
    IN Utf8DecodeIgnore(IF i = 0 THEN field ELSE Take(field, i - 1))

(***************************************************************************)
(* core/xtc.py: XTCWriter.                                                 *)
(***************************************************************************)
\* XTCMetadata(title, author, create_time), the other fields at their defaults
XTCMetadata(title, author, create_time) ==
    [title |-> title, author |-> author, publisher |-> <<>>,
     language |-> <<101, 110, 45, 85, 83>>, create_time |-> create_time,
     cover_page |-> NO_COVER, chapter_count |-> 0]

XTCChapter(name, start_page, end_page) ==
    [name |-> name, start_page |-> start_page, end_page |-> end_page]

\* XTCWriter.__init__: chapter_count follows the chapter list when there is one
XTCWriter_init(width, height, reading_direction, metadata, chapters) ==
    [width |-> width, height |-> height, reading_direction |-> reading_direction,
     metadata |-> IF chapters # <<>>
                  THEN [metadata EXCEPT !.chapter_count = Len(chapters)]
                  ELSE metadata,
     chapters |-> chapters]

HasChapters(w) == Len(w.chapters) > 0

\* The variant that looks at title and author only.
HasMetadataTitleAuthor(w) == w.metadata.title # <<>> \/ w.metadata.author # <<>>

HasMetadata(w) == w.metadata.title # <<>> \/ w.metadata.author # <<>> \/ HasChapters(w)

WriteHeader(w, page_count, metadata_offset, index_offset, data_offset) ==
    PackLE(XTC_MAGIC, 4)
    \o PackLE(XTC_VERSION, 2)
    \o PackLE(page_count, 2)
    \o PackLE(w.reading_direction, 1)
    \o PackLE(IF HasMetadata(w) THEN 1 ELSE 0, 1)
    \o PackLE(0, 1)
    \o PackLE(IF HasChapters(w) THEN 1 ELSE 0, 1)
    \o PackLE(0, 4)
    \o PackLE(IF HasMetadata(w) THEN metadata_offset ELSE 0, 8)
    \o PackLE(index_offset, 8)
    \o PackLE(data_offset, 8)
    \o PackLE(0, 8)

WriteMetadata(w) ==
    FixedField(w.metadata.title, 128)
    \o FixedField(w.metadata.author, 64)
    \o FixedField(w.metadata.publisher, 32)
    \o FixedField(w.metadata.language, 16)
    \o PackLE(w.metadata.create_time, 4)
    \o PackLE(w.metadata.cover_page, 2)
    \o PackLE(Len(w.chapters), 2)
    \o Zeros(8)

WriteChapter(chapter) ==
    FixedField(chapter.name, 80)
    \o PackLE(chapter.start_page, 2)
    \o PackLE(chapter.end_page, 2)
    \o Zeros(12)

WriteChapters(w) == Flatten([i \in 1..Len(w.chapters) |-> WriteChapter(w.chapters[i])])

\* The variant that starts every frame at the start of the data area.
SizeBeforeNone(frame_data_list, i) == 0

\* The byte offset of frame i in the data area
RECURSIVE SizeBefore(_, _)
SizeBefore(frame_data_list, i) ==
    IF i <= 1 THEN 0
    ELSE Len(frame_data_list[i - 1]) + SizeBefore(frame_data_list, i - 1)

WriteIndex(w, frame_data_list, data_offset) ==
    Flatten([i \in 1..Len(frame_data_list) |->
                PackLE(data_offset + SizeBefore(frame_data_list, i), 8)
                \o PackLE(Len(frame_data_list[i]), 4)
                \o PackLE(w.width, 2)
                \o PackLE(w.height, 2)])

\* The variant whose data area starts right after the header blocks, over the
\* index table.
DataOffsetNoIndex(index_offset, page_count) == index_offset

DataOffset(index_offset, page_count) == index_offset + INDEX_ENTRY_SIZE * page_count

\* XTCWriter.write: [raised, file]
XTCWriter_write(w, frame_data_list) ==
    IF frame_data_list = <<>> THEN [raised |-> TRUE, file |-> <<>>]
    ELSE LET page_count == Len(frame_data_list)
             metadata_offset == IF HasMetadata(w) THEN HEADER_SIZE ELSE 0
             index_offset == HEADER_SIZE
                             + (IF HasMetadata(w) THEN METADATA_SIZE ELSE 0)
                             + (IF HasChapters(w) THEN CHAPTER_SIZE * Len(w.chapters) ELSE 0)
             data_offset == DataOffset(index_offset, page_count)
         IN [raised |-> FALSE,
             file |-> WriteHeader(w, page_count, metadata_offset, index_offset, data_offset)
                      \o (IF HasMetadata(w) THEN WriteMetadata(w) ELSE <<>>)
                      \o (IF HasChapters(w) THEN WriteChapters(w) ELSE <<>>)
                      \o WriteIndex(w, frame_data_list, data_offset)
                      \o Flatten(frame_data_list)]

(***************************************************************************)
(* core/xtc.py: XTCReader.                                                 *)
(***************************************************************************)
NoMetadata ==
    [present |-> FALSE, title |-> <<>>, author |-> <<>>, publisher |-> <<>>,
     language |-> <<>>, create_time |-> 0, cover_page |-> 0, chapter_count |-> 0]

XTCReader_init ==
    [raised |-> FALSE, frames |-> <<>>, metadata |-> NoMetadata, chapters |-> <<>>,
     width |-> 0, height |-> 0, page_count |-> 0, reading_direction |-> 0]

ReadMetadata(data, offset) ==
    [present |-> TRUE,
     title |-> ReadField(Slice(data, offset, offset + 128)),
     author |-> ReadField(Slice(data, offset + 128, offset + 192)),
     publisher |-> ReadField(Slice(data, offset + 192, offset + 224)),
     language |-> ReadField(Slice(data, offset + 224, offset + 240)),
     create_time |-> UnpackLE(Slice(data, offset + 240, offset + 244)),
     cover_page |-> UnpackLE(Slice(data, offset + 244, offset + 246)),
     chapter_count |-> UnpackLE(Slice(data, offset + 246, offset + 248))]

ReadChapter(data, chapter_offset) ==
    [name |-> ReadField(Slice(data, chapter_offset, chapter_offset + 80)),
     start_page |-> UnpackLE(Slice(data, chapter_offset + 80, chapter_offset + 82)),
     end_page |-> UnpackLE(Slice(data, chapter_offset + 82, chapter_offset + 84))]

\* XTCReader._read_chapters: `count` records from `offset`
ReadChapters(data, offset, count) ==
    [i \in 1..count |-> ReadChapter(data, offset + (i - 1) * CHAPTER_SIZE)]

ReadFrame(data, index_offset, i) ==
    LET entry_offset == index_offset + i * INDEX_ENTRY_SIZE
        page_offset == UnpackLE(Slice(data, entry_offset, entry_offset + 8))
        page_size == UnpackLE(Slice(data, entry_offset + 8, entry_offset + 12))
    IN Slice(data, page_offset, page_offset + page_size)

\* The variant in which unpacking a short slice reads the bytes there are.
NeverShort(data, b) == FALSE

\* struct.unpack on data[a:b] raises struct.error when the buffer ends before b
Short(data, b) == Len(data) < b

\* XTCReader.decode on a reader in state r: the reader afterwards, .frames
\* holding the returned list.  The chapter count handed to _read_chapters is
\* the header's has_chapters byte.  The version field is unpacked and not
\* looked at.
XTCReader_decode(r, data) ==
    IF Short(data, 4) \/ UnpackLE(Slice(data, 0, 4)) # XTC_MAGIC
    THEN [r EXCEPT !.raised = TRUE]
    ELSE IF Short(data, HEADER_SIZE) THEN [r EXCEPT !.raised = TRUE]
    ELSE LET page_count == UnpackLE(Slice(data, 6, 8))
             reading_direction == UnpackLE(Slice(data, 8, 9))
             has_metadata == UnpackLE(Slice(data, 9, 10))
             has_chapters == UnpackLE(Slice(data, 11, 12))
             metadata_offset == UnpackLE(Slice(data, 16, 24))
             index_offset == UnpackLE(Slice(data, 24, 32))
             chapter_offset == IF has_metadata # 0 THEN metadata_offset + METADATA_SIZE
                               ELSE HEADER_SIZE
             metadata_short == /\ has_metadata # 0 /\ metadata_offset > 0
                               /\ Short(data, metadata_offset + 248)
             chapters_short == /\ has_chapters # 0
                               /\ \E i \in 0..(has_chapters - 1) :
                                     Short(data, chapter_offset + i * CHAPTER_SIZE + 84)
             index_short == \E i \in 0..(page_count - 1) :
                               Short(data, index_offset + i * INDEX_ENTRY_SIZE + 16)
         IN IF metadata_short \/ chapters_short \/ index_short
            THEN [r EXCEPT !.raised = TRUE]
            ELSE
            [raised |-> FALSE,
             frames |-> [i \in 1..page_count |-> ReadFrame(data, index_offset, i - 1)],
             metadata |-> IF has_metadata # 0 /\ metadata_offset > 0
                          THEN ReadMetadata(data, metadata_offset)
                          ELSE r.metadata,
             chapters |-> IF has_chapters # 0
                          THEN r.chapters \o ReadChapters(data, chapter_offset, has_chapters)
                          ELSE r.chapters,
             width |-> IF page_count > 0
                       THEN UnpackLE(Slice(data, index_offset + 12, index_offset + 14))
                       ELSE r.width,
             height |-> IF page_count > 0
                        THEN UnpackLE(Slice(data, index_offset + 14, index_offset + 16))
                        ELSE r.height,
             page_count |-> page_count,
             reading_direction |-> reading_direction]

(***************************************************************************)
(* core/xth.py: the XTH frame codec (4 levels, two bit planes).  A pixel   *)
(* grid is a sequence of rows, pixel_values[y + 1][x + 1] standing for     *)
(* pixel_values[y, x].                                                     *)
(***************************************************************************)
XTH_MAGIC == 4740184
XTH_HEADER_SIZE == 22

\* (v >> n) & 1
Bit(v, n) == (v \div (2 ^ n)) % 2

\* eight bits, the first being bit 7, or-ed into one byte
RECURSIVE PackBits(_)
PackBits(bits) ==
    IF bits = <<>> THEN 0 ELSE Head(bits) * (2 ^ (Len(bits) - 1)) + PackBits(Tail(bits))

RECURSIVE SumSeq(_)
SumSeq(bytes) == IF bytes = <<>> THEN 0 ELSE Head(bytes) + SumSeq(Tail(bytes))

\* The variant that stores the levels without the swap of the middle values.
lut_map_straight == [v \in 0..3 |-> v]

lut_map == [v \in 0..3 |-> IF v = 1 THEN 2 ELSE IF v = 2 THEN 1 ELSE v]

lut_reverse == [v \in 0..3 |-> IF v = 2 THEN 1 ELSE IF v = 1 THEN 2 ELSE v]

\* The variant that counts whole groups of 8 rows only.
WholeGroups(height) == height \div 8

\* len(range(0, height, 8))
Groups(height) == (height + 7) \div 8

\* One plane of _encode_bitplanes: columns x = width-1 .. 0, in each column
\* the groups y = 0, 8, ..; bit n of the mapped value, row y + i at bit 7 - i.
EncodePlane(w, mapped_values, n) ==
    [k \in 1..(w.width * Groups(w.height)) |->
        LET x == w.width - 1 - ((k - 1) \div Groups(w.height))
            y == 8 * ((k - 1) % Groups(w.height))
        IN PackBits([j \in 1..8 |->
                        IF y + (j - 1) < w.height
                        THEN Bit(mapped_values[y + j][x + 1], n)
                        ELSE 0])]

\* XTHWriter._encode_bitplanes: [plane1, plane2]
XTHWriter_encode_bitplanes(w, pixel_values) ==
    LET mapped_values == [y \in 1..w.height |-> [x \in 1..w.width |->
                             3 - lut_map[pixel_values[y][x]]]]
    IN [plane1 |-> EncodePlane(w, mapped_values, 1),
        plane2 |-> EncodePlane(w, mapped_values, 0)]

\* XTHWriter.encode once _convert_to_4level has returned pixel_values
XTHWriter_encode(w, pixel_values) ==
    LET planes == The({XTHWriter_encode_bitplanes(w, g) : g \in {pixel_values}})
        data_size == Len(planes.plane1) + Len(planes.plane2)
        checksum == SumSeq(planes.plane1) + SumSeq(planes.plane2)
    IN PackLE(XTH_MAGIC, 4)
       \o PackLE(w.width, 2)
       \o PackLE(w.height, 2)
       \o PackLE(0, 1)
       \o PackLE(0, 1)
       \o PackLE(data_size, 4)
       \o PackLE(checksum, 8)
       \o planes.plane1
       \o planes.plane2

\* An image as a decoder returns it, and a decoder's exception
DecodedImage(width, height, pixels) ==
    [raised |-> FALSE, width |-> width, height |-> height, pixels |-> pixels]

DecodeRaised == [raised |-> TRUE, width |-> 0, height |-> 0, pixels |-> <<>>]

\* plane[byte_idx] if byte_idx < len(plane) else 0
ByteOrZero(plane, byte_idx) == IF byte_idx < Len(plane) THEN plane[byte_idx + 1] ELSE 0

\* XTHReader.decode
XTHReader_decode(data) ==
    IF Short(data, 4) \/ UnpackLE(Slice(data, 0, 4)) # XTH_MAGIC THEN DecodeRaised
    ELSE IF Short(data, 8) THEN DecodeRaised
    ELSE LET width == UnpackLE(Slice(data, 4, 6))
             height == UnpackLE(Slice(data, 6, 8))
             bitplane_data == Slice(data, XTH_HEADER_SIZE, Len(data))
             bitplane_size == Len(bitplane_data) \div 2
             plane1 == Take(bitplane_data, bitplane_size)
             plane2 == Drop(bitplane_data, bitplane_size)
         IN DecodedImage(width, height,
                [row \in 1..height |-> [col \in 1..width |->
                    LET byte_idx == (width - col) * Groups(height) + ((row - 1) \div 8)
                        i == (row - 1) % 8
                        bit1 == Bit(ByteOrZero(plane1, byte_idx), 7 - i)
                        bit2 == Bit(ByteOrZero(plane2, byte_idx), 7 - i)
                        val == 3 - (2 * bit1 + bit2)
                    IN lut_reverse[val] * 85]])

(***************************************************************************)
(* core/xtg.py: the XTG frame codec (1 bit, one row-major plane).          *)
(***************************************************************************)
XTG_MAGIC == 4674648
XTG_HEADER_SIZE == 22

\* The variant that counts whole bytes of 8 pixels only.
WholeBytesPerRow(width) == width \div 8

\* bytes_per_row = (width + 7) // 8
BytesPerRow(width) == (width + 7) \div 8

\* XTGWriter._encode_bitmap: rows top to bottom, in each row the bytes left
\* to right, pixel x = byte_idx * 8 + bit_idx at bit 7 - bit_idx.
XTGWriter_encode_bitmap(w, pixel_values) ==
    [k \in 1..(w.height * BytesPerRow(w.width)) |->
        LET y == (k - 1) \div BytesPerRow(w.width)
            byte_idx == (k - 1) % BytesPerRow(w.width)
        IN PackBits([j \in 1..8 |->
                        IF byte_idx * 8 + (j - 1) < w.width
                        THEN pixel_values[y + 1][byte_idx * 8 + j]
                        ELSE 0])]

\* XTGWriter.encode once _convert_to_1bit has returned pixel_values
XTGWriter_encode(w, pixel_values) ==
    LET bitmap_data == The({XTGWriter_encode_bitmap(w, g) : g \in {pixel_values}})
    IN PackLE(XTG_MAGIC, 4)
       \o PackLE(w.width, 2)
       \o PackLE(w.height, 2)
       \o PackLE(0, 1)
       \o PackLE(0, 1)
       \o PackLE(Len(bitmap_data), 4)
       \o PackLE(SumSeq(bitmap_data), 8)
       \o bitmap_data

\* XTGReader.decode: a pixel whose byte lies past the end of the data stays 0
XTGReader_decode(data) ==
    IF Short(data, 4) \/ UnpackLE(Slice(data, 0, 4)) # XTG_MAGIC THEN DecodeRaised
    ELSE IF Short(data, 8) THEN DecodeRaised
    ELSE LET width == UnpackLE(Slice(data, 4, 6))
             height == UnpackLE(Slice(data, 6, 8))
             bitmap_data == Slice(data, XTG_HEADER_SIZE, Len(data))
         IN DecodedImage(width, height,
                [row \in 1..height |-> [col \in 1..width |->
                    LET byte_idx == (col - 1) \div 8
                        bit_idx == (col - 1) % 8
                        data_idx == (row - 1) * BytesPerRow(width) + byte_idx
                    IN IF data_idx < Len(bitmap_data)
                       THEN Bit(bitmap_data[data_idx + 1], 7 - bit_idx) * 255
                       ELSE 0]])

\* Grids of levels: level (a*x + b*y + c) mod 4 at pixel (x, y)
LevelGrid(width, height, a, b, c) ==
    [row \in 1..height |-> [col \in 1..width |->
        (a * (col - 1) + b * (row - 1) + c) % 4]]

\* Grids of bits: the high bit of the level grid
BitGrid(width, height, a, b, c) ==
    [row \in 1..height |-> [col \in 1..width |->
        ((a * (col - 1) + b * (row - 1) + c) % 4) \div 2]]

(***************************************************************************)
(* assets/xtcontainer.py: the magic numbers of the two frame formats, as   *)
(* the bytes a frame starts with.                                          *)
(***************************************************************************)
XTH_MAGIC_BYTES == <<88, 84, 72, 0>>
XTG_MAGIC_BYTES == <<88, 84, 71, 0>>

(***************************************************************************)
(* The files on disk, as the collaborators that open them see them.        *)
(***************************************************************************)
\* A TOC entry as the PDF outline extractor reports it
TocEntry(title, page, level) == [title |-> title, page |-> page, level |-> level]

\* The PDF documents: what get_page_count and the outline extractor report
PdfFiles ==
    [p \in {"a.pdf", "b.pdf", "e.pdf", "r.pdf"} |->
        CASE p = "a.pdf" ->
               [page_count |-> 2, bad_pages |-> {},
                toc |-> <<TocEntry("A", 1, 1), TocEntry("B", 2, 1), TocEntry("C", 2, 2)>>]
          [] p = "e.pdf" ->
               [page_count |-> 2, bad_pages |-> {},
                toc |-> <<TocEntry("A", 1, 1), TocEntry("B", 2, 1), TocEntry("C", 1, 2)>>]
          [] p = "r.pdf" ->
               [page_count |-> 3, bad_pages |-> {3}, toc |-> <<>>]
          [] OTHER ->
               [page_count |-> 3, bad_pages |-> {}, toc |-> <<>>]]

\* The markup files: the PDF that typst.compile writes for each
MarkupFiles ==
    [p \in {"t.typ", "m.md", "k.typ", "j.md", "w.md"} |->
        CASE p = "t.typ" -> "a.pdf"
          [] p = "w.md" -> "r.pdf"
          [] OTHER -> "b.pdf"]

\* What goes wrong with each: typst.compile raises for "k.typ", the Jinja
\* template cannot be loaded in the run that converts "j.md"
MarkupFaults ==
    [p \in {"t.typ", "m.md", "k.typ", "j.md", "w.md"} |->
        CASE p = "k.typ" -> "compile"
          [] p = "j.md" -> "template"
          [] OTHER -> "none"]

\* The containers on disk, each as it was written: frames and chapters
XtcSources ==
    [p \in {"c.xtc", "d.xtc", "g.xtc", "u.xtc"} |->
        CASE p = "c.xtc" ->
               [frames |-> <<XTH_MAGIC_BYTES \o <<11>>, XTH_MAGIC_BYTES \o <<12>>>>,
                chapters |-> <<XTCChapter(<<49>>, 0, 0), XTCChapter(<<50>>, 1, 1)>>]
          [] p = "d.xtc" ->
               [frames |-> <<XTH_MAGIC_BYTES \o <<21>>>>,
                chapters |-> <<XTCChapter(<<51>>, 0, 0)>>]
          [] p = "g.xtc" ->
               [frames |-> <<XTG_MAGIC_BYTES \o <<31>>>>,
                chapters |-> <<>>]
          [] OTHER ->
               [frames |-> <<<<7, 7, 7, 7>>>>,
                chapters |-> <<>>]]

\* No file at all
NoFiles == <<>>

\* The bytes of every file that is read as bytes.  "x.xth" is a file with the
\* .xth suffix that holds an XTG frame.
FileBytes ==
    [p \in {"c.xtc", "d.xtc", "g.xtc", "u.xtc", "f.xth", "h.xtg", "x.xth"} |->
        CASE p = "f.xth" ->
               XTHWriter_encode([width |-> 2, height |-> 9], LevelGrid(2, 9, 1, 1, 1))
          [] p = "h.xtg" ->
               XTGWriter_encode([width |-> 9, height |-> 2], BitGrid(9, 2, 0, 2, 2))
          [] p = "x.xth" ->
               XTGWriter_encode([width |-> 9, height |-> 2], BitGrid(9, 2, 1, 0, 0))
          [] OTHER ->
               XTCWriter_write(
                   XTCWriter_init(480, 800, 0, XTCMetadata(<<>>, <<>>, 0),
                                  XtcSources[p].chapters),
                   XtcSources[p].frames).file]

\* os.path.splitext(path)[1].lower(), for the dotted names used here
Suffix(path) ==
    CASE path \in {"a.pdf", "b.pdf", "e.pdf", "r.pdf"} -> ".pdf"
      [] path \in {"p.png"} -> ".png"
      [] path \in {"q.jpg"} -> ".jpg"
      [] path \in {"c.xtc", "d.xtc", "g.xtc", "u.xtc"} -> ".xtc"
      [] path \in {"f.xth", "x.xth"} -> ".xth"
      [] path \in {"h.xtg"} -> ".xtg"
      [] path \in {"t.typ", "k.typ"} -> ".typ"
      [] path \in {"m.md", "j.md", "w.md"} -> ".md"
      [] OTHER -> ".txt"

\* An image: the file it came from and, for a rendered page, the page number
Image(src, page) == [src |-> src, page |-> page]

NoImage == Image("", 0)

\* The byte that stands for an image's pixels in an encoded frame
ImageCode(image) ==
    (CASE image.src = "a.pdf" -> 100
       [] image.src = "b.pdf" -> 110
       [] image.src = "e.pdf" -> 150
       [] image.src = "r.pdf" -> 160
       [] image.src = "p.png" -> 120
       [] image.src = "q.jpg" -> 130
       [] OTHER -> 140) + image.page

(***************************************************************************)
(* assets/base.py: Asset, its metadata map and the convert wrapper.        *)
(* A metadata map holds, per key, <<>> (key absent) or <<value>>.          *)
(***************************************************************************)
MetaKeys == {"page_spec", "custom", "toc"}

\* Asset.__init__: self.metadata = {}
EmptyMetadata == [k \in MetaKeys |-> <<>>]

\* Every asset is a record of the same shape; has_metadata tells whether the
\* object has a metadata attribute at all (Asset.__init__ has run).
Asset_init(cls) ==
    [cls |-> cls, has_metadata |-> TRUE, metadata |-> EmptyMetadata,
     path |-> "", image |-> NoImage, data |-> <<>>, format |-> ""]

\* Asset.set_metadata
set_metadata(asset, key, value) ==
    [asset EXCEPT !.metadata = [asset.metadata EXCEPT ![key] = <<value>>]]

\* Asset.get_metadata(key) is truthy: present and not empty
HasTruthy(asset, key) == asset.metadata[key] # <<>> /\ asset.metadata[key][1] # <<>>

\* dict.update: the keys of `source` overwrite, the others stay
DictUpdate(target, source) ==
    [k \in MetaKeys |-> IF source[k] # <<>> THEN source[k] ELSE target[k]]

\* Asset.propagate_metadata(target), on a target that has a metadata map
propagate_metadata(self, target) ==
    [target EXCEPT !.metadata = DictUpdate(target.metadata, self.metadata)]

\* Asset._auto_propagate_metadata: no class of the package overrides it
auto_propagate_metadata == TRUE

MemoryAsset(data) == [Asset_init("MemoryAsset") EXCEPT !.data = data]

FileAsset(cls, path) == [Asset_init(cls) EXCEPT !.path = path]

BaseImageAsset(image) == [Asset_init("ImageAsset") EXCEPT !.image = image]

(***************************************************************************)
(* assets/xtframe.py                                                       *)
(***************************************************************************)
\* XTFrameAsset.__init__ sets data and format and does not run Asset.__init__:
\* the object has no metadata attribute.
XTFrameAsset(data, format) ==
    [cls |-> "XTFrameAsset", has_metadata |-> FALSE, metadata |-> EmptyMetadata,
     path |-> "", image |-> NoImage, data |-> data, format |-> format]

FileXTFrameAsset(path) ==
    [FileAsset("FileXTFrameAsset", path) EXCEPT
        !.format = IF Suffix(path) = ".xth" THEN "xth"
                   ELSE IF Suffix(path) = ".xtg" THEN "xtg"
                   ELSE "xth"]

PDFAsset(path) == FileAsset("PDFAsset", path)

XTContainerAsset(path) == FileAsset("XTContainerAsset", path)

TypstFileAsset(path) == FileAsset("TypstFileAsset", path)

MarkdownFileAsset(path) == FileAsset("MarkdownFileAsset", path)

(***************************************************************************)
(* The result of a conversion: whether it raised, what kind of value the   *)
(* type-specific conversion returned ("self", "asset" or "list"), the      *)
(* assets it returned (made) and those assets after the wrapper has run.   *)
(***************************************************************************)
Raised == [raised |-> TRUE, kind |-> "none", made |-> <<>>, items |-> <<>>]

Returned(kind, items) == [raised |-> FALSE, kind |-> kind, made |-> items, items |-> items]

\* The first returned asset that has no metadata map, 0 when all have one
FirstWithoutMetadata(items) ==
    IF \A i \in 1..Len(items) : items[i].has_metadata THEN 0
    ELSE CHOOSE i \in 1..Len(items) :
            /\ ~items[i].has_metadata
            /\ \A j \in 1..(i - 1) : items[j].has_metadata

\* Asset.convert after _convert_impl has returned `result`: propagate to the
\* returned assets in order; target.metadata raises AttributeError on the
\* first that has no metadata map, the ones before it already updated.
PropagatedTo(self, result) ==
    IF result.raised THEN result
    ELSE IF auto_propagate_metadata /\ result.kind # "self"
    THEN The({[raised |-> bad # 0,
               kind |-> result.kind,
               made |-> result.made,
               items |-> [i \in 1..Len(result.made) |->
                             IF bad = 0 \/ i < bad
                             THEN propagate_metadata(self, result.made[i])
                             ELSE result.made[i]]] :
              bad \in {FirstWithoutMetadata(result.made)}})
    ELSE result

Propagated(self, result) == The({PropagatedTo(self, r) : r \in {result}})

(***************************************************************************)
(* assets/image.py                                                         *)
(***************************************************************************)
\* XTHWriter.encode / XTGWriter.encode, the pixels standing as one byte
EncodeFrame(image, format_type) ==
    (IF format_type = "xth" THEN XTH_MAGIC_BYTES ELSE XTG_MAGIC_BYTES)
    \o <<ImageCode(image)>>

ImageAsset_convert_impl(self, config) ==
    IF config.format \notin {"xth", "xtg"} THEN Raised
    ELSE Returned("asset", <<XTFrameAsset(EncodeFrame(self.image, config.format),
                                          config.format)>>)

(***************************************************************************)
(* assets/pdf.py                                                           *)
(***************************************************************************)
\* PDFConverter.extract_toc: the outline of the document, in outline order
extract_toc(path) == PdfFiles[path].toc

\* toc_by_page[page] after the groupby loop: the last run of consecutive
\* entries with that page, <<>> when the page is no key
TocByPage(toc, page) ==
    LET at == {i \in 1..Len(toc) : toc[i].page = page}
    IN IF at = {} THEN <<>>
       ELSE LET last == CHOOSE i \in at : \A j \in at : j <= i
                first == CHOOSE i \in 1..last :
                            /\ \A j \in i..last : toc[j].page = page
                            /\ (i = 1 \/ toc[i - 1].page # page)
            IN SubSeq(toc, first, last)

\* The pages a fan-out stage emits: those page_spec resolves to when it is
\* truthy, else all of them: [raised, pages]
SelectPages(self, page_count) ==
    IF HasTruthy(self, "page_spec")
    THEN parse_page_range(self.metadata["page_spec"][1], page_count)
    ELSE [raised |-> FALSE, pages |-> RangeSeq(1, page_count)]

\* PDFConverter.render_page: the page's image, or an exception for a page
\* out of range or one the renderer fails on
render_page(path, page_num) ==
    IF page_num < 1 \/ page_num > PdfFiles[path].page_count
          \/ page_num \in PdfFiles[path].bad_pages
    THEN [raised |-> TRUE, image |-> NoImage]
    ELSE [raised |-> FALSE, image |-> Image(path, page_num)]

\* The variant of the loop that leaves out the pages that fail to render.
RenderLoopSkipping(path, pages) ==
    [raised |-> FALSE,
     pages |-> SelectSeq(pages, LAMBDA n : ~render_page(path, n).raised)]

\* The loop over the selected pages raises at the first page that fails to
\* render; the images made before are lost with the local list.
RenderLoop(path, pages) ==
    [raised |-> \E k \in 1..Len(pages) : render_page(path, pages[k]).raised,
     pages |-> pages]

\* The loop over the selected pages: render, wrap, attach the page's entries
PDFPageAssets(self, toc, pages) ==
    [k \in 1..Len(pages) |->
        The({IF page_toc # <<>>
             THEN set_metadata(BaseImageAsset(render_page(self.path, pages[k]).image),
                               "toc", page_toc)
             ELSE BaseImageAsset(render_page(self.path, pages[k]).image) :
             page_toc \in {TocByPage(toc, pages[k])}})]

PDFAsset_convert_impl(self, config) ==
    The({IF selected.raised THEN Raised
         ELSE The({IF loop.raised THEN Raised
                   ELSE Returned("list",
                            PDFPageAssets(self,
                                          IF config.extract_toc THEN extract_toc(self.path)
                                          ELSE <<>>,
                                          loop.pages)) :
                   loop \in {RenderLoop(self.path, selected.pages)}}) :
         selected \in {SelectPages(self, PdfFiles[self.path].page_count)}})

(***************************************************************************)
(* assets/xtcontainer.py                                                   *)
(***************************************************************************)
\* The format the first frame's magic number tells, "" for any other
FrameFormat(frame_data) ==
    IF Slice(frame_data, 0, 4) = XTH_MAGIC_BYTES THEN "xth"
    ELSE IF Slice(frame_data, 0, 4) = XTG_MAGIC_BYTES THEN "xtg"
    ELSE ""

\* _convert_impl once reader.read has returned frame_data_list
ContainerFrameAssets(self, frame_data_list) ==
    IF frame_data_list = <<>> THEN Raised
    ELSE IF FrameFormat(frame_data_list[1]) = "" THEN Raised
    ELSE The({IF selected.raised THEN Raised
              ELSE Returned("list",
                       [k \in 1..Len(selected.pages) |->
                           XTFrameAsset(frame_data_list[selected.pages[k]],
                                        FrameFormat(frame_data_list[1]))]) :
              selected \in {SelectPages(self, Len(frame_data_list))}})

XTContainerAsset_convert_impl(self, config) ==
    The({IF reader.raised THEN Raised
         ELSE ContainerFrameAssets(self, reader.frames) :
         reader \in {XTCReader_decode(XTCReader_init, disk[self.path])}})

(***************************************************************************)
(* assets/typst.py, assets/markdown.py                                     *)
(***************************************************************************)
\* The variant that removes the files only when the block has not raised.
OnSuccessOnly(raised, temps, paths) == IF raised THEN temps ELSE temps \ paths

\* finally: Path(p).unlink(missing_ok=True), whether the block raised or not
Finally(raised, temps, paths) == temps \ paths

\* pdf_asset.convert(config) on the compiled PDF, page_spec handed on when it
\* is truthy
CompiledPdfAssets(self, config) ==
    The({Propagated(pdf_asset, PDFAsset_convert_impl(pdf_asset, config)) :
         pdf_asset \in
            {IF HasTruthy(self, "page_spec")
             THEN set_metadata(PDFAsset(MarkupFiles[self.path]), "page_spec",
                               self.metadata["page_spec"][1])
             ELSE PDFAsset(MarkupFiles[self.path])}})

\* One run of _convert_impl of a Typst or Markdown asset: what it returns and
\* the temporary files it leaves.  Markdown creates the .typ file, renders
\* the template into it, then does what Typst does: create the PDF file,
\* compile, convert the PDF; each file is unlinked in a finally block.
MarkupRun(self, config) ==
    LET is_markdown == self.cls = "MarkdownFileAsset"
        typ == IF is_markdown THEN {"tmp.typ"} ELSE {}
        template_raised == is_markdown /\ MarkupFaults[self.path] = "template"
        pdf == IF template_raised THEN {} ELSE {"tmp.pdf"}
        compile_raised == ~template_raised /\ MarkupFaults[self.path] = "compile"
    IN The({[result |-> IF assets.raised THEN Raised ELSE Returned("list", assets.items),
             temps |-> IF is_markdown
                       THEN Finally(assets.raised,
                                    Finally(assets.raised, typ \cup pdf, pdf), typ)
                       ELSE Finally(assets.raised, typ \cup pdf, pdf)] :
            assets \in {IF template_raised \/ compile_raised THEN Raised
                        ELSE CompiledPdfAssets(self, config)}})

MarkupAsset_convert_impl(self, config) == MarkupRun(self, config).result

\* The temporary files a convert call leaves behind
TempsLeft(self, config) ==
    IF self.cls \in {"TypstFileAsset", "MarkdownFileAsset"}
    THEN MarkupRun(self, config).temps
    ELSE {}

(***************************************************************************)
(* convert(config), by class.                                              *)
(***************************************************************************)
\* Asset._convert_impl as the class of `self` defines it
convert_impl(self, config) ==
    CASE self.cls = "ImageAsset" -> ImageAsset_convert_impl(self, config)
      [] self.cls = "PDFAsset" -> PDFAsset_convert_impl(self, config)
      [] self.cls = "XTContainerAsset" -> XTContainerAsset_convert_impl(self, config)
      [] self.cls \in {"TypstFileAsset", "MarkdownFileAsset"} ->
             MarkupAsset_convert_impl(self, config)
      [] OTHER -> Returned("self", <<self>>)

\* Asset.convert
Asset_convert(self, config) == Propagated(self, convert_impl(self, config))

\* XTFrameAsset.convert and FileXTFrameAsset.convert replace Asset.convert
convert(self, config) ==
    CASE self.cls = "XTFrameAsset" -> Returned("self", <<self>>)
      [] self.cls = "FileXTFrameAsset" ->
             Returned("asset", <<XTFrameAsset(disk[self.path], self.format)>>)
      [] OTHER -> Asset_convert(self, config)

(***************************************************************************)
(* The chapter builder (spec section 4.7; cli/convert.py has no            *)
(* extract_chapters_from_toc, its tests call it).  The pages are given as  *)
(* the TocEntry list each carries.                                         *)
(***************************************************************************)
\* The variant that ends a chapter on the next marker page itself
CloseChapterAtNext(open, next_index) ==
    [i \in 1..Len(open) |-> XTCChapter(open[i].name, open[i].start_page, next_index)]

\* Close the open chapter, if there is one, before the 0-based page next_index
CloseChapter(open, next_index) ==
    [i \in 1..Len(open) |-> XTCChapter(open[i].name, open[i].start_page, next_index - 1)]

\* The scan from the 1-based position i on: `chapters` are closed, `open` is
\* <<>> or the one chapter that has started and not ended
RECURSIVE ScanChapters(_, _, _, _)
ScanChapters(tocs, i, chapters, open) ==
    IF i > Len(tocs) THEN chapters \o CloseChapter(open, Len(tocs))
    ELSE IF tocs[i] # <<>>
    THEN ScanChapters(tocs, i + 1, chapters \o CloseChapter(open, i - 1),
                      <<[name |-> tocs[i][1].title, start_page |-> i - 1]>>)
    ELSE ScanChapters(tocs, i + 1, chapters, open)

extract_chapters_from_toc(tocs) == ScanChapters(tocs, 1, <<>>, <<>>)

(***************************************************************************)
(* The inputs of parse_page_range: spec texts written from tokens.         *)
(***************************************************************************)
DigitChar(d) ==
    CASE d = 0 -> "0" [] d = 1 -> "1" [] d = 2 -> "2" [] d = 3 -> "3"
      [] d = 4 -> "4" [] d = 5 -> "5" [] d = 6 -> "6" [] d = 7 -> "7"
      [] d = 8 -> "8" [] d = 9 -> "9"

RECURSIVE FormatInt(_)
FormatInt(n) ==
    IF n < 10 THEN <<DigitChar(n)>>
    ELSE FormatInt(n \div 10) \o <<DigitChar(n % 10)>>

PageNums == {0, 1, 2, 3, 11}

RangePairs == {<<1, 2>>, <<1, 3>>, <<2, 3>>, <<2, 2>>, <<3, 1>>, <<0, 2>>,
               <<2, 11>>, <<11, 12>>}

PlainTokens ==
    {[kind |-> "single", a |-> n, b |-> n, pad |-> FALSE] : n \in PageNums}
    \cup {[kind |-> "range", a |-> p[1], b |-> p[2], pad |-> FALSE] : p \in RangePairs}
    \cup {[kind |-> "from", a |-> n, b |-> 0, pad |-> FALSE] : n \in {1, 2, 11}}
    \cup {[kind |-> "upto", a |-> 0, b |-> n, pad |-> FALSE] : n \in {0, 2, 11}}

PaddedTokens ==
    {[kind |-> "single", a |-> 3, b |-> 3, pad |-> TRUE],
     [kind |-> "range", a |-> 1, b |-> 2, pad |-> TRUE],
     [kind |-> "from", a |-> 2, b |-> 0, pad |-> TRUE],
     [kind |-> "upto", a |-> 0, b |-> 2, pad |-> TRUE]}

\* Tokens outside the grammar: a lone dash, a word.
BadTokens ==
    {[kind |-> "dash", a |-> 0, b |-> 0, pad |-> FALSE],
     [kind |-> "word", a |-> 0, b |-> 0, pad |-> FALSE]}

Tokens == PlainTokens \cup PaddedTokens \cup BadTokens

TokenLists == UNION {[1..n -> Tokens] : n \in 1..MaxTokens}

TotalPages == (0..MaxPages) \cup {12}

TokenText(t) ==
    LET sp == IF t.pad THEN <<" ">> ELSE <<>>
    IN CASE t.kind = "single" -> sp \o FormatInt(t.a) \o sp
         [] t.kind = "range" -> sp \o FormatInt(t.a) \o sp \o <<"-">> \o sp \o FormatInt(t.b) \o sp
         [] t.kind = "from" -> sp \o FormatInt(t.a) \o sp \o <<"-">> \o sp
         [] t.kind = "upto" -> sp \o <<"-">> \o sp \o FormatInt(t.b) \o sp
         [] t.kind = "dash" -> <<"-">>
         [] t.kind = "word" -> <<"a">>

RECURSIVE SpecText(_)
SpecText(ts) ==
    IF Len(ts) = 1 THEN TokenText(ts[1])
    ELSE TokenText(Head(ts)) \o <<",">> \o SpecText(Tail(ts))

WellFormed(ts) == \A i \in 1..Len(ts) : ts[i] \in PlainTokens \cup PaddedTokens

\* What a token stands for, by the grammar of the page-range resolver.
TokenPages(t, total_pages) ==
    CASE t.kind = "single" -> <<t.a>>
      [] t.kind = "range" -> RangeSeq(t.a, t.b)
      [] t.kind = "from" -> RangeSeq(t.a, total_pages)
      [] t.kind = "upto" -> RangeSeq(1, t.b)
      [] OTHER -> <<>>

Expansion(ts, total_pages) ==
    Flatten([i \in 1..Len(ts) |-> TokenPages(ts[i], total_pages)])

FirstIndex(s, x) == CHOOSE i \in 1..Len(s) : s[i] = x /\ \A j \in 1..(i - 1) : s[j] # x

(***************************************************************************)
(* The parse_page_range harness.                                           *)
(***************************************************************************)
PagesIdle ==
    /\ prTokens = <<>>
    /\ prSpec = <<>>
    /\ prTotal = 0
    /\ prOut = [raised |-> FALSE, pages |-> <<>>]
    /\ prPc = "idle"

PathIdle ==
    /\ psPath = <<>>
    /\ psOut = [path |-> <<>>, has_spec |-> FALSE, spec |-> <<>>]
    /\ psPc = "idle"

XtcIdle ==
    /\ xcWriter = XTCWriter_init(0, 0, 0, XTCMetadata(<<>>, <<>>, 0), <<>>)
    /\ xcFrames = <<>>
    /\ xcFile = <<>>
    /\ xcReader = XTCReader_init
    /\ xcPc = "idle"
    /\ xcAgain = <<>>

\* No conversion has been made yet
NoConversion == [done |-> FALSE, src |-> MemoryAsset(<<>>), after |-> MemoryAsset(<<>>),
                 out |-> Returned("self", <<>>)]

AssetsIdle ==
    /\ asCfg = [format |-> "xth", extract_toc |-> FALSE]
    /\ asRoot = MemoryAsset(<<>>)
    /\ asWork = <<>>
    /\ asProduced = <<>>
    /\ asLast = NoConversion
    /\ asPc = "idle"
    /\ asTemps = {}

\* No turn of the loop yet
NoTurn == [asset |-> [cls |-> "none", path |-> ""], outcome |-> "none"]

OrchIdle ==
    /\ orCfg = [format |-> "xth", extract_toc |-> FALSE]
    /\ orMode = "idle"
    /\ orNow = 0
    /\ orSources = <<>>
    /\ orStack = <<>>
    /\ orFrames = <<>>
    /\ orWriter = XTCWriter_init(0, 0, 0, XTCMetadata(<<>>, <<>>, 0), <<>>)
    /\ orOutput = <<>>
    /\ orPc = "idle"
    /\ orProcessed = 0
    /\ orPushed = 0
    /\ orLast = NoTurn

ChapIdle ==
    /\ chPages = <<>>
    /\ chOut = <<>>
    /\ chPc = "idle"

FramesIdle ==
    /\ fcFormat = "" /\ fcWriter = [width |-> 0, height |-> 0]
    /\ fcGrid = <<>> /\ fcBlob = <<>> /\ fcImage = DecodeRaised /\ fcPc = "idle"

DecodeIdle ==
    dcKind = "" /\ dcData = <<>> /\ dcOut = DecodeRaised /\ dcPc = "idle"

DitherIdle ==
    /\ dtInput = <<>> /\ dtHeap = <<>> /\ dtLevels = <<>> /\ dtStrength = 0
    /\ dtOut = <<>> /\ dtPc = "idle"

InitPages ==
    /\ prTokens \in TokenLists
    /\ prSpec = SpecText(prTokens)
    /\ prTotal \in TotalPages
    /\ prOut = [raised |-> FALSE, pages |-> <<>>]
    /\ prPc = "start"
    /\ PathIdle /\ XtcIdle /\ AssetsIdle /\ OrchIdle /\ disk = NoFiles /\ ChapIdle /\ FramesIdle /\ DecodeIdle /\ DitherIdle

CallParsePageRange ==
    /\ prPc = "start"
    /\ prOut' = parse_page_range(prSpec, prTotal)
    /\ prPc' = "done"
    /\ UNCHANGED <<prTokens, prSpec, prTotal>>
    /\ UNCHANGED <<pathVars, xtcVars, assetVars, orchVars, disk, chapVars, frameVars, decVars, ditherVars>>

NextPages == CallParsePageRange

SpecPages == InitPages /\ [][NextPages]_vars

\* C5: for a well-formed spec, parse_page_range returns the tokens' expansions
\* in the order given, restricted to 1..total_pages, without repeats, each kept
\* page at the place of its first occurrence.
C5_RangeExpansion ==
    (prPc = "done" /\ WellFormed(prTokens)) =>
        LET e == Expansion(prTokens, prTotal)
            r == prOut.pages
        IN /\ ~prOut.raised
           /\ \A i \in 1..Len(r) : 1 <= r[i] /\ r[i] <= prTotal
           /\ \A i, j \in 1..Len(r) : i # j => r[i] # r[j]
           /\ SeqRange(r) = {x \in SeqRange(e) : 1 <= x /\ x <= prTotal}
           /\ \A i, j \in 1..Len(r) : i < j => FirstIndex(e, r[i]) < FirstIndex(e, r[j])

\* A spec given out of ascending order, with a repeat and an out-of-range page,
\* has been expanded.
C5_Witness ==
    /\ prPc = "done"
    /\ WellFormed(prTokens)
    /\ Len(prTokens) = 2
    /\ prTokens[1].kind = "range" /\ prTokens[1].a = 2 /\ prTokens[1].b = 11
    /\ prTokens[2].kind = "upto" /\ prTokens[2].b = 2
    /\ prTotal = 3
    /\ prOut.pages = <<2, 3, 1>>

(***************************************************************************)
(* The parse_page_spec harness: a path is a prefix followed by a body.     *)
(***************************************************************************)
PathPrefixes ==
    UrlPrefixes
    \cup {<<>>,
          <<"C", ":", "\\">>,
          <<"s", "3", ":", "/", "/">>,
          <<"f", "i", "l", "e", ":", "/", "/">>}

PathChars == {"a", "1", ":", "-", "."}

PathBodies == UNION {[1..n -> PathChars] : n \in 0..MaxBodyLen}

Letters == {"a", "C", "f", "h", "i", "l", "p", "s", "t"}

ColonCount(path) == Cardinality({i \in 1..Len(path) : path[i] = ":"})

HasDigit(s) == \E i \in 1..Len(s) : s[i] \in Digits

\* The only colon of the path follows a single drive letter: C:\...
DriveOnly(path) ==
    /\ Len(path) >= 3
    /\ path[1] \in Letters /\ path[2] = ":" /\ path[3] = "\\"
    /\ ColonCount(path) = 1

\* The only colon of the path ends a URL scheme: scheme://...
SchemeOnly(path) ==
    /\ ColonCount(path) = 1
    /\ \E i \in 2..(Len(path) - 2) :
          /\ path[i] = ":" /\ path[i + 1] = "/" /\ path[i + 2] = "/"
          /\ \A j \in 1..(i - 1) : path[j] \in Letters \cup Digits

InitPath ==
    /\ \E pre \in PathPrefixes, body \in PathBodies : psPath = pre \o body
    /\ psOut = NoSpec(<<>>)
    /\ psPc = "start"
    /\ PagesIdle /\ XtcIdle /\ AssetsIdle /\ OrchIdle /\ disk = NoFiles /\ ChapIdle /\ FramesIdle /\ DecodeIdle /\ DitherIdle

CallParsePageSpec ==
    /\ psPc = "start"
    /\ psOut' = parse_page_spec(psPath)
    /\ psPc' = "done"
    /\ UNCHANGED psPath
    /\ UNCHANGED <<pagesVars, xtcVars, assetVars, orchVars, disk, chapVars, frameVars, decVars, ditherVars>>

NextPath == CallParsePageSpec

SpecPath == InitPath /\ [][NextPath]_vars

\* C6: a path whose only colon is a drive-letter colon or a URL-scheme colon
\* comes back whole, with no page spec, whatever follows the colon.
C6_DriveOrSchemeNeverSplit ==
    (psPc = "done" /\ (DriveOnly(psPath) \/ SchemeOnly(psPath))) =>
        psOut = NoSpec(psPath)

\* C7 as claimed: every path p + ":" + s, with a digit and no colon in s, comes
\* back as (p, s); a path with no colon comes back whole.
C7_SplitsEverySuffix ==
    psPc = "done" =>
        /\ \A i \in 1..Len(psPath) :
              (/\ psPath[i] = ":"
               /\ HasDigit(Drop(psPath, i))
               /\ ColonCount(Drop(psPath, i)) = 0)
              => psOut = [path |-> Take(psPath, i - 1), has_spec |-> TRUE,
                          spec |-> Drop(psPath, i)]
        /\ ColonCount(psPath) = 0 => psOut = NoSpec(psPath)

\* C7 amended: the same, for paths that do not begin with http://, https://
\* or ftp://.
C7_SplitsSuffixUnlessUrl ==
    (psPc = "done" /\ ~\E u \in UrlPrefixes : StartsWith(psPath, u)) =>
        /\ \A i \in 1..Len(psPath) :
              (/\ psPath[i] = ":"
               /\ HasDigit(Drop(psPath, i))
               /\ ColonCount(Drop(psPath, i)) = 0)
              => psOut = [path |-> Take(psPath, i - 1), has_spec |-> TRUE,
                          spec |-> Drop(psPath, i)]
        /\ ColonCount(psPath) = 0 => psOut = NoSpec(psPath)

\* A Windows path followed by a page spec has been split at the last colon.
C7_Witness ==
    /\ psPc = "done"
    /\ psPath = <<"C", ":", "\\", "a", ":", "1">>
    /\ psOut = [path |-> <<"C", ":", "\\", "a">>, has_spec |-> TRUE, spec |-> <<"1">>]

(***************************************************************************)
(* The XTC harness: construct a writer, write a frame list, read the file  *)
(* back with a fresh reader.                                               *)
(***************************************************************************)
\* Frame blobs: the container stores them as opaque bytes.
Blobs ==
    {XTH_MAGIC_BYTES \o <<0>>,
     XTH_MAGIC_BYTES \o <<255, 1>>,
     XTG_MAGIC_BYTES,
     <<7>>,
     <<>>}

FrameLists == UNION {[1..n -> Blobs] : n \in 0..MaxFrames}

LongName == [i \in 1..41 |-> IF i = 1 THEN 66 ELSE 233]

ChapterLists ==
    {<<>>,
     <<XTCChapter(<<97>>, 0, 0)>>,
     <<XTCChapter(<<97>>, 0, 0), XTCChapter(<<66, 233>>, 1, 1)>>,
     <<XTCChapter(LongName, 0, 1), XTCChapter(<<97>>, 2, 2), XTCChapter(<<66, 233>>, 3, 300)>>}

Titles == {<<>>, <<84>>}

Authors == {<<>>, <<65, 110>>}

CreateTimes == {0, 1700000000}

InitXtc ==
    /\ \E title \in Titles, author \in Authors, t \in CreateTimes,
          chapters \in ChapterLists, dir \in {0, 1} :
          xcWriter = XTCWriter_init(480, 800, dir, XTCMetadata(title, author, t), chapters)
    /\ xcFrames \in FrameLists
    /\ xcFile = <<>>
    /\ xcReader = XTCReader_init
    /\ xcPc = "start"
    /\ xcAgain = <<>>
    /\ PagesIdle /\ PathIdle /\ AssetsIdle /\ OrchIdle /\ disk = NoFiles /\ ChapIdle /\ FramesIdle /\ DecodeIdle /\ DitherIdle

\* writer.write(path, frame_data_list)
XtcWrite ==
    /\ xcPc = "start"
    /\ LET out == XTCWriter_write(xcWriter, xcFrames)
       IN /\ xcFile' = out.file
          /\ xcPc' = IF out.raised THEN "raised" ELSE "written"
    /\ UNCHANGED <<xcWriter, xcFrames, xcReader, xcAgain>>
    /\ UNCHANGED <<pagesVars, pathVars, assetVars, orchVars, disk, chapVars, frameVars, decVars, ditherVars>>

\* XTCReader().read(path)
XtcRead ==
    /\ xcPc = "written"
    /\ xcReader' = XTCReader_decode(XTCReader_init, xcFile)
    /\ xcPc' = "read"
    /\ UNCHANGED <<xcWriter, xcFrames, xcFile, xcAgain>>
    /\ UNCHANGED <<pagesVars, pathVars, assetVars, orchVars, disk, chapVars, frameVars, decVars, ditherVars>>

\* Other well-formed containers: a bare one, and one with a title and a chapter
AgainFiles ==
    {XTCWriter_write(XTCWriter_init(480, 800, 0, XTCMetadata(<<>>, <<>>, 0), <<>>),
                     <<<<7>>>>).file,
     XTCWriter_write(XTCWriter_init(480, 800, 0, XTCMetadata(<<90>>, <<>>, 0),
                                    <<XTCChapter(<<122>>, 0, 0)>>),
                     <<<<7>>>>).file}

\* reader.read(other_path) on the reader that has read the first file
XtcReadAgain ==
    /\ xcPc = "read"
    /\ ~xcReader.raised
    /\ \E file \in AgainFiles :
          /\ xcAgain' = file
          /\ xcReader' = XTCReader_decode(xcReader, file)
    /\ xcPc' = "reread"
    /\ UNCHANGED <<xcWriter, xcFrames, xcFile>>
    /\ UNCHANGED <<pagesVars, pathVars, assetVars, orchVars, disk, chapVars, frameVars, decVars, ditherVars>>

NextXtc == XtcWrite \/ XtcRead \/ XtcReadAgain

SpecXtc == InitXtc /\ [][NextXtc]_vars

NoMetadataGiven(w) ==
    w.metadata.title = <<>> /\ w.metadata.author = <<>> /\ w.chapters = <<>>

\* C8: a non-empty frame list written with no title, author or chapters is
\* read back as the same list of blobs, byte for byte and in order.
C8_ContainerRoundTrip ==
    (xcPc = "read" /\ NoMetadataGiven(xcWriter)) =>
        /\ ~xcReader.raised
        /\ xcReader.frames = xcFrames

\* Two different blobs, one of them empty, have been written bare and read back.
C8_Witness ==
    /\ xcPc = "read"
    /\ NoMetadataGiven(xcWriter)
    /\ Len(xcFrames) = 2
    /\ xcFrames[1] = <<>>
    /\ xcFrames[2] = XTH_MAGIC_BYTES \o <<255, 1>>
    /\ xcReader.frames = xcFrames

\* The name a chapter record can hold: the UTF-8 text cut to 79 bytes.
FieldName(name) == ReadField(FixedField(name, 80))

\* C9: a container written with K >= 1 chapters is read back with K chapters,
\* the i-th holding the i-th written name (cut to the field), start_page and
\* end_page.
C9_ChaptersReadBack ==
    (xcPc = "read" /\ Len(xcWriter.chapters) >= 1) =>
        /\ Len(xcReader.chapters) = Len(xcWriter.chapters)
        /\ \A i \in 1..Len(xcWriter.chapters) :
              xcReader.chapters[i] =
                  XTCChapter(FieldName(xcWriter.chapters[i].name),
                             xcWriter.chapters[i].start_page,
                             xcWriter.chapters[i].end_page)

\* The header fields of a written file, read at their byte positions
HeaderHasMetadata(file) == file[10]

HeaderHasChapters(file) == file[12]

HeaderMetadataOffset(file) == UnpackLE(Slice(file, 16, 24))

\* The length of a file made of header, index table and frames, plus `extra`
FileLength(frames, extra) ==
    HEADER_SIZE + extra + INDEX_ENTRY_SIZE * Len(frames) + Len(Flatten(frames))

\* C12: a written container has has-metadata flag 1, metadata offset right
\* after the header and a 256-byte metadata block exactly when the title or
\* the author is non-empty or the chapter list is non-empty; otherwise the
\* flag is 0, the metadata offset is 0 and the file holds no metadata block;
\* a has-chapters flag of 1 always comes with a has-metadata flag of 1.
C12_MetadataBlockIffGiven ==
    (xcPc \in {"written", "read"}) =>
        /\ IF NoMetadataGiven(xcWriter)
           THEN /\ HeaderHasMetadata(xcFile) = 0
                /\ HeaderMetadataOffset(xcFile) = 0
                /\ Len(xcFile) = FileLength(xcFrames, 0)
           ELSE /\ HeaderHasMetadata(xcFile) = 1
                /\ HeaderMetadataOffset(xcFile) = HEADER_SIZE
                /\ Len(xcFile) = FileLength(xcFrames,
                                      METADATA_SIZE + CHAPTER_SIZE * Len(xcWriter.chapters))
        /\ HeaderHasChapters(xcFile) = 1 => HeaderHasMetadata(xcFile) = 1

\* A container with chapters but neither title nor author has been written
\* with the metadata block.
C12_Witness ==
    /\ xcPc = "written"
    /\ xcWriter.metadata.title = <<>>
    /\ xcWriter.metadata.author = <<>>
    /\ Len(xcWriter.chapters) = 2
    /\ HeaderHasChapters(xcFile) = 1
    /\ HeaderHasMetadata(xcFile) = 1
    /\ Len(xcFile) = FileLength(xcFrames, METADATA_SIZE + 2 * CHAPTER_SIZE)

\* The offsets in the header of a written file
HeaderIndexOffset(file) == UnpackLE(Slice(file, 24, 32))

HeaderDataOffset(file) == UnpackLE(Slice(file, 32, 40))

\* Offset and size in the index entry of page i (0-based)
EntryOffset(file, i) ==
    UnpackLE(Slice(file, HeaderIndexOffset(file) + 16 * i, HeaderIndexOffset(file) + 16 * i + 8))

EntrySize(file, i) ==
    UnpackLE(Slice(file, HeaderIndexOffset(file) + 16 * i + 8,
                   HeaderIndexOffset(file) + 16 * i + 12))

\* C27: in a written file of N frames and K chapters the sections follow one
\* another without gap or overlap: index_offset = 48 + (256 if the metadata
\* block is present) + 96*K, data_offset = index_offset + 16*N, the first
\* entry starts at data_offset, every later entry where the one before ends,
\* every entry's size is its frame's length, and the last entry ends at the
\* end of the file.
C27_SectionsSequential ==
    (xcPc \in {"written", "read"}) =>
        LET N == Len(xcFrames)
            K == Len(xcWriter.chapters)
        IN /\ HeaderIndexOffset(xcFile) =
                 48 + (IF HeaderHasMetadata(xcFile) = 1 THEN 256 ELSE 0) + 96 * K
           /\ HeaderDataOffset(xcFile) = HeaderIndexOffset(xcFile) + 16 * N
           /\ EntryOffset(xcFile, 0) = HeaderDataOffset(xcFile)
           /\ \A i \in 1..(N - 1) :
                 EntryOffset(xcFile, i) = EntryOffset(xcFile, i - 1) + EntrySize(xcFile, i - 1)
           /\ \A i \in 0..(N - 1) : EntrySize(xcFile, i) = Len(xcFrames[i + 1])
           /\ EntryOffset(xcFile, N - 1) + EntrySize(xcFile, N - 1) = Len(xcFile)

\* Two frames of different lengths have been written behind a metadata block
\* and three chapter records.
C27_Witness ==
    /\ xcPc = "written"
    /\ Len(xcFrames) = 2
    /\ Len(xcFrames[1]) = 6 /\ Len(xcFrames[2]) = 1
    /\ Len(xcWriter.chapters) = 3
    /\ HeaderIndexOffset(xcFile) = 592
    /\ EntryOffset(xcFile, 1) = 630

\* C29: after a reader has decoded a second container, its chapters and
\* metadata are those a fresh reader holds after decoding that container.
C29_ReaderStateOfLastDecode ==
    (xcPc = "reread") =>
        /\ xcReader.chapters = XTCReader_decode(XTCReader_init, xcAgain).chapters
        /\ xcReader.metadata = XTCReader_decode(XTCReader_init, xcAgain).metadata

\* The list holds at least one XTH frame and at least one XTG frame
MixedFormats(frame_data_list) ==
    /\ \E i \in 1..Len(frame_data_list) : FrameFormat(frame_data_list[i]) = "xth"
    /\ \E i \in 1..Len(frame_data_list) : FrameFormat(frame_data_list[i]) = "xtg"

\* C14: a container write that is handed at least one XTH frame and at least
\* one XTG frame raises and leaves no file.
C14_MixedFormatsRaise ==
    (xcPc # "start" /\ MixedFormats(xcFrames)) =>
        /\ xcPc = "raised"
        /\ xcFile = <<>>

(***************************************************************************)
(* The asset harness: build one source asset, set metadata on it, then     *)
(* convert it and everything its conversions return, stage by stage.       *)
(***************************************************************************)
\* config, as far as the conversions read it
Configs == [format : {"xth", "xtg"}, extract_toc : BOOLEAN]

RootAssets ==
    {PDFAsset("a.pdf"), PDFAsset("b.pdf"), PDFAsset("e.pdf"), PDFAsset("r.pdf"),
     BaseImageAsset(Image("p.png", 0)),
     FileXTFrameAsset("f.xth"), FileXTFrameAsset("h.xtg"),
     XTContainerAsset("c.xtc"), XTContainerAsset("d.xtc"),
     XTContainerAsset("g.xtc"), XTContainerAsset("u.xtc"),
     TypstFileAsset("t.typ"), MarkdownFileAsset("m.md"),
     TypstFileAsset("k.typ"), MarkdownFileAsset("j.md"), MarkdownFileAsset("w.md"),
     MemoryAsset(<<1>>),
     XTFrameAsset(XTH_MAGIC_BYTES \o <<41>>, "xth")}

\* The values a caller sets, per key
MetaValues(key) ==
    CASE key = "page_spec" -> {<<"2", ",", "1">>, <<"2", "-">>, <<"9">>, <<"x">>}
      [] key = "custom" -> {<<"v">>, <<"w">>}
      [] OTHER -> {<<TocEntry("Z", 1, 1)>>}

InitAssets ==
    /\ disk = FileBytes
    /\ asCfg \in Configs
    /\ asRoot \in RootAssets
    /\ asWork = <<>>
    /\ asProduced = <<>>
    /\ asLast = NoConversion
    /\ asPc = "build"
    /\ asTemps = {}
    /\ PagesIdle /\ PathIdle /\ XtcIdle /\ OrchIdle /\ ChapIdle /\ FramesIdle /\ DecodeIdle /\ DitherIdle

\* asset.set_metadata(key, value), once per key; on an object without a
\* metadata map the call raises
AsSetMetadata ==
    /\ asPc = "build"
    /\ \E key \in MetaKeys :
          /\ asRoot.metadata[key] = <<>>
          /\ \E value \in MetaValues(key) :
                IF asRoot.has_metadata
                THEN asRoot' = set_metadata(asRoot, key, value) /\ asPc' = "build"
                ELSE asRoot' = asRoot /\ asPc' = "raised"
    /\ UNCHANGED <<asCfg, asWork, asProduced, asLast, asTemps>>
    /\ UNCHANGED <<pagesVars, pathVars, xtcVars, orchVars, disk, chapVars, frameVars, decVars, ditherVars>>

\* The caller turns to converting
AsStart ==
    /\ asPc = "build"
    /\ asWork' = <<asRoot>>
    /\ asPc' = "converting"
    /\ UNCHANGED <<asCfg, asRoot, asProduced, asLast, asTemps>>
    /\ UNCHANGED <<pagesVars, pathVars, xtcVars, orchVars, disk, chapVars, frameVars, decVars, ditherVars>>

\* result = asset.convert(config) on the next asset; what it returns is
\* converted in turn, a frame that returns itself is final
AsConvert ==
    /\ asPc = "converting"
    /\ asWork # <<>>
    /\ \E out \in {convert(Head(asWork), asCfg)} :
          /\ asLast' = [done |-> TRUE, src |-> Head(asWork), after |-> Head(asWork),
                        out |-> out]
          /\ asWork' = IF out.raised \/ out.kind = "self" THEN Tail(asWork)
                       ELSE out.items \o Tail(asWork)
          /\ asProduced' = IF out.raised \/ out.kind = "self" THEN asProduced
                           ELSE asProduced \o out.items
          /\ asTemps' = asTemps \cup TempsLeft(Head(asWork), asCfg)
          /\ asPc' = IF out.raised THEN "raised"
                     ELSE IF out.kind # "self" /\ out.items # <<>> THEN "converting"
                     ELSE IF Tail(asWork) = <<>> THEN "done"
                     ELSE "converting"
    /\ UNCHANGED <<asCfg, asRoot>>
    /\ UNCHANGED <<pagesVars, pathVars, xtcVars, orchVars, disk, chapVars, frameVars, decVars, ditherVars>>

NextAssets == AsSetMetadata \/ AsStart \/ AsConvert

SpecAssets == InitAssets /\ [][NextAssets]_vars

\* The asset holds `value` under `key`
Carries(asset, key, value) == asset.has_metadata /\ asset.metadata[key] = value

\* The keys an asset's metadata map defines
KeysOf(asset) == {k \in MetaKeys : asset.metadata[k] # <<>>}

\* The class takes Asset.convert as it is
UsesWrapper(asset) == asset.cls \notin {"XTFrameAsset", "FileXTFrameAsset"}

\* C2: after Asset.convert on a node that does not suppress propagation, every
\* asset the type-specific conversion returned holds the source's value for
\* every key of the source's metadata map, and the source's map is unchanged.
C2_WrapperCopiesSourceMetadata ==
    (asLast.done /\ UsesWrapper(asLast.src) /\ auto_propagate_metadata
        /\ asLast.out.kind \in {"asset", "list"}) =>
        /\ \A i \in 1..Len(asLast.out.made) :
              \A k \in KeysOf(asLast.src) :
                 Carries(asLast.out.items[i], k, asLast.src.metadata[k])
        /\ asLast.after.metadata = asLast.src.metadata

\* C3: every key set on the source asset is carried, with the same value, by
\* every asset produced at every stage, the frames that ImageAsset.convert and
\* FileXTFrameAsset.convert return included; keys of a produced asset that its
\* source does not define stay as the conversion made them.
C3_MetadataReachesEveryDescendant ==
    /\ \A i \in 1..Len(asProduced) :
          \A k \in KeysOf(asRoot) : Carries(asProduced[i], k, asRoot.metadata[k])
    /\ (asLast.done /\ asLast.src.cls \in {"ImageAsset", "FileXTFrameAsset"}) =>
          /\ ~asLast.out.raised
          /\ \A k \in KeysOf(asLast.src) :
                Carries(asLast.out.items[1], k, asLast.src.metadata[k])
    /\ asLast.done =>
          \A i \in 1..Len(asLast.out.made) :
             \A k \in MetaKeys \ KeysOf(asLast.src) :
                asLast.out.made[i].has_metadata =>
                   asLast.out.items[i].metadata[k] = asLast.out.made[i].metadata[k]

\* The page count a fan-out stage resolves page_spec against
OwnPageCount(asset) ==
    IF asset.cls = "PDFAsset" THEN PdfFiles[asset.path].page_count
    ELSE Len(XtcSources[asset.path].frames)

\* The pages the stage is to emit: [raised, pages]
SelectedPages(asset) ==
    IF asset.metadata["page_spec"] # <<>>
    THEN parse_page_range(asset.metadata["page_spec"][1], OwnPageCount(asset))
    ELSE [raised |-> FALSE, pages |-> RangeSeq(1, OwnPageCount(asset))]

\* The child is page `page` of the asset
IsPageOf(child, asset, page) ==
    IF asset.cls = "PDFAsset"
    THEN child.cls = "ImageAsset" /\ child.image = Image(asset.path, page)
    ELSE child.cls = "XTFrameAsset" /\ child.data = XtcSources[asset.path].frames[page]

\* C4: a PDF asset or a container asset emits exactly the children for the
\* pages parse_page_range(page_spec, own page count) returns, child k being
\* page pages[k]; without a page_spec, all pages 1..page_count in order.
C4_FanOutEmitsSelectedPages ==
    (asLast.done /\ asLast.src.cls \in {"PDFAsset", "XTContainerAsset"}
        /\ asLast.src.path \notin {"u.xtc", "r.pdf"}) =>
        \A selected \in {SelectedPages(asLast.src)} :
           ~selected.raised =>
              /\ ~asLast.out.raised
              /\ Len(asLast.out.items) = Len(selected.pages)
              /\ \A k \in 1..Len(selected.pages) :
                    IsPageOf(asLast.out.items[k], asLast.src, selected.pages[k])

\* C23: once the conversion of a Typst or Markdown asset has returned or
\* raised, none of the temporary files it created exists.
C23_TempFilesReleased ==
    (asLast.done /\ asLast.src.cls \in {"TypstFileAsset", "MarkdownFileAsset"}) =>
        asTemps = {}

\* A Markdown conversion has raised because a page of the compiled PDF failed
\* to render, and no temporary file is left.
C23_Witness ==
    /\ asLast.done
    /\ asLast.src.cls = "MarkdownFileAsset"
    /\ asLast.src.path = "w.md"
    /\ asLast.out.raised
    /\ asTemps = {}

\* The entries of an outline whose page number is `page`, in outline order
PageEntries(toc, page) == SelectSeq(toc, LAMBDA e : e.page = page)

\* C26: with TOC extraction on, every page image a PDF asset emits carries
\* under 'toc' exactly the outline's entries for its page number, in outline
\* order, and no 'toc' key when the outline has no entry for the page.
C26_PageTocAttached ==
    (asLast.done /\ asLast.src.cls = "PDFAsset" /\ asCfg.extract_toc
        /\ asLast.src.metadata["toc"] = <<>> /\ ~asLast.out.raised) =>
        \A k \in 1..Len(asLast.out.items) :
            \A want \in {PageEntries(PdfFiles[asLast.src.path].toc,
                                      asLast.out.items[k].image.page)} :
                asLast.out.items[k].metadata["toc"] =
                    IF want = <<>> THEN <<>> ELSE <<want>>

(***************************************************************************)
(* cli/convert.py: the convert command as a worklist machine.              *)
(***************************************************************************)
SourcePaths ==
    {"a.pdf", "r.pdf", "p.png", "c.xtc", "d.xtc", "g.xtc", "u.xtc", "f.xth", "h.xtg",
     "x.xth", "n.txt"}

SourceLists == UNION {[1..n -> SourcePaths] : n \in 1..MaxSources}

Reverse(s) == [i \in 1..Len(s) |-> s[Len(s) + 1 - i]]

\* The variant that knows no .xtg suffix.
create_asset_no_xtg(path) ==
    LET ext == Suffix(path)
    IN CASE ext = ".pdf" -> <<PDFAsset(path)>>
         [] ext \in {".png", ".jpg", ".jpeg"} -> <<BaseImageAsset(Image(path, 0))>>
         [] ext = ".xtc" -> <<XTContainerAsset(path)>>
         [] ext \in {".xth"} -> <<FileXTFrameAsset(path)>>
         [] OTHER -> <<>>

\* create_asset(path): <<asset>>, or <<>> for None
create_asset(path) ==
    LET ext == Suffix(path)
    IN CASE ext = ".pdf" -> <<PDFAsset(path)>>
         [] ext \in {".png", ".jpg", ".jpeg"} -> <<BaseImageAsset(Image(path, 0))>>
         [] ext = ".xtc" -> <<XTContainerAsset(path)>>
         [] ext \in {".xth", ".xtg"} -> <<FileXTFrameAsset(path)>>
         [] OTHER -> <<>>

\* The stack after seeding: the assets of the sources, reversed, the top last
SeedStack(sources) ==
    Flatten([i \in 1..Len(sources) |-> create_asset(Reverse(sources)[i])])

\* writer.write(output, frame_data_list), the writer kept with the outcome
WriteWith(writer, frame_data_list) ==
    [writer |-> writer,
     raised |-> XTCWriter_write(writer, frame_data_list).raised,
     file |-> XTCWriter_write(writer, frame_data_list).file]

\* write_xtc(output, frames, cfg) at time `now`: [raised, wrote, writer, file]
write_xtc(frames, cfg, now) ==
    LET no_writer == XTCWriter_init(0, 0, 0, XTCMetadata(<<>>, <<>>, 0), <<>>)
    IN IF frames = <<>>
       THEN [raised |-> FALSE, wrote |-> FALSE, writer |-> no_writer, file |-> <<>>]
       ELSE IF Cardinality({frames[i].format : i \in 1..Len(frames)}) > 1
       THEN [raised |-> TRUE, wrote |-> FALSE, writer |-> no_writer, file |-> <<>>]
       ELSE The({[raised |-> out.raised, wrote |-> ~out.raised, writer |-> out.writer,
                  file |-> out.file] :
                 out \in {WriteWith(XTCWriter_init(480, 800, 0,
                                                   XTCMetadata(<<>>, <<>>, now), <<>>),
                                    [i \in 1..Len(frames) |-> frames[i].data])}})

\* The command has loaded its configuration, chosen the output mode from the
\* output's suffix and seeded the stack.
InitOrch ==
    /\ disk = FileBytes
    /\ orCfg \in Configs
    /\ orMode \in {"xtc", "single_pages"}
    /\ orNow \in CreateTimes
    /\ orSources \in SourceLists
    /\ orStack = SeedStack(orSources)
    /\ orFrames = <<>>
    /\ orWriter = XTCWriter_init(0, 0, 0, XTCMetadata(<<>>, <<>>, 0), <<>>)
    /\ orOutput = <<>>
    /\ orPc = "running"
    /\ orProcessed = 0
    /\ orPushed = Len(SeedStack(orSources))
    /\ orLast = NoTurn
    /\ PagesIdle /\ PathIdle /\ XtcIdle /\ AssetsIdle /\ ChapIdle /\ FramesIdle /\ DecodeIdle /\ DitherIdle

\* The variant that takes two assets off the worklist in one turn.
PoppedTwo(stack) == Take(stack, IF Len(stack) >= 2 THEN Len(stack) - 2 ELSE 0)

\* The worklist after asset = stack.pop()
Popped(stack) == Take(stack, Len(stack) - 1)

\* The branches on the result of asset.convert(cfg), in the order of the
\* code: a list, a frame, another asset, the asset itself when it is a frame,
\* and (no branch) the asset itself when it is not.
HandleResult(asset, result, rest, frames) ==
    CASE result.kind = "list" ->
           [stack |-> rest \o Reverse(result.items), frames |-> frames,
            outcome |-> "children"]
      [] result.kind # "list" /\ result.items[1].cls = "XTFrameAsset" ->
           [stack |-> rest, frames |-> Append(frames, result.items[1]),
            outcome |-> "frame"]
      [] result.kind = "asset" /\ result.items[1].cls # "XTFrameAsset" ->
           [stack |-> Append(rest, result.items[1]), frames |-> frames,
            outcome |-> "pushed"]
      [] OTHER ->
           IF asset.cls = "XTFrameAsset"
           THEN [stack |-> rest, frames |-> Append(frames, asset), outcome |-> "frame"]
           ELSE [stack |-> rest, frames |-> frames, outcome |-> "dropped"]

\* One turn of the loop: pop, convert, handle the result, count.  An
\* exception leaves the command.
ProcessAsset ==
    /\ orPc = "running"
    /\ orStack # <<>>
    /\ \E asset \in {orStack[Len(orStack)]} :
       \E result \in {convert(asset, orCfg)} :
          IF result.raised
          THEN /\ orPc' = "raised"
               /\ orStack' = Popped(orStack)
               /\ orFrames' = orFrames
               /\ orProcessed' = orProcessed
               /\ orPushed' = orPushed
               /\ orLast' = [asset |-> [cls |-> asset.cls, path |-> asset.path],
                             outcome |-> "raised"]
          ELSE \E after \in {HandleResult(asset, result, Popped(orStack), orFrames)} :
               /\ orPc' = "running"
               /\ orStack' = after.stack
               /\ orFrames' = after.frames
               /\ orProcessed' = orProcessed + 1
               /\ orPushed' = orPushed + (CASE after.outcome = "children" -> Len(result.items)
                                            [] after.outcome = "pushed" -> 1
                                            [] OTHER -> 0)
               /\ orLast' = [asset |-> [cls |-> asset.cls, path |-> asset.path],
                             outcome |-> after.outcome]
    /\ UNCHANGED <<orCfg, orMode, orNow, orSources, orWriter, orOutput>>
    /\ UNCHANGED <<pagesVars, pathVars, xtcVars, assetVars, disk, chapVars, frameVars, decVars, ditherVars>>

\* The stack is empty: write the output for the mode.  orOutput holds the
\* files written, in order.
WriteOutput ==
    /\ orPc = "running"
    /\ orStack = <<>>
    /\ IF orMode = "xtc"
       THEN \E out \in {write_xtc(orFrames, orCfg, orNow)} :
               /\ orWriter' = out.writer
               /\ orOutput' = IF out.wrote THEN <<out.file>> ELSE <<>>
               /\ orPc' = IF out.raised THEN "raised" ELSE "done"
       ELSE /\ orWriter' = orWriter
            /\ orOutput' = [i \in 1..Len(orFrames) |-> orFrames[i].data]
            /\ orPc' = "done"
    /\ UNCHANGED <<orCfg, orMode, orNow, orSources, orStack, orFrames,
                   orProcessed, orPushed, orLast>>
    /\ UNCHANGED <<pagesVars, pathVars, xtcVars, assetVars, disk, chapVars, frameVars, decVars, ditherVars>>

NextOrch == ProcessAsset \/ WriteOutput

SpecOrch == InitOrch /\ [][NextOrch]_vars

\* The sources whose conversion succeeds: files that hold one frame
FrameFilePaths == {"f.xth", "h.xtg", "x.xth"}

\* The command started on sources whose conversions all succeed
InitOrchFrameFiles ==
    /\ InitOrch
    /\ \A i \in 1..Len(orSources) : orSources[i] \in FrameFilePaths

\* The command is one sequential thread: while it has not raised or
\* finished, its next step is taken.
SpecOrchFair == InitOrchFrameFiles /\ [][NextOrch]_vars /\ WF_vars(NextOrch)

\* The frames one input is to produce, as <<data, format>> pairs in page order
SourceFrames(path, cfg) ==
    LET ext == Suffix(path)
    IN CASE ext = ".pdf" ->
               [k \in 1..PdfFiles[path].page_count |->
                   <<EncodeFrame(Image(path, k), cfg.format), cfg.format>>]
         [] ext = ".png" -> <<<<EncodeFrame(Image(path, 0), cfg.format), cfg.format>>>>
         [] ext = ".xtc" ->
               [k \in 1..Len(XtcSources[path].frames) |->
                   <<XtcSources[path].frames[k],
                     IF Take(XtcSources[path].frames[1], 4) = XTH_MAGIC_BYTES
                     THEN "xth" ELSE "xtg">>]
         [] ext = ".xth" -> <<<<FileBytes[path], "xth">>>>
         [] ext = ".xtg" -> <<<<FileBytes[path], "xtg">>>>
         [] OTHER -> <<>>

Stopped == orPc \in {"done", "raised"}

\* C1: the orchestrator's frame list is the concatenation, in input order, of
\* the frames each input produces, each input's frames in page order and every
\* frame once.
C1_FramesInInputOrder ==
    Stopped =>
        [i \in 1..Len(orFrames) |-> <<orFrames[i].data, orFrames[i].format>>]
            = Flatten([i \in 1..Len(orSources) |-> SourceFrames(orSources[i], orCfg)])

\* The chapters of the i-th source, shifted by the pages of the sources before
RECURSIVE PagesBefore(_, _)
PagesBefore(sources, i) ==
    IF i <= 1 THEN 0
    ELSE Len(XtcSources[sources[i - 1]].frames) + PagesBefore(sources, i - 1)

ShiftedChapters(sources, i) ==
    LET chapters == XtcSources[sources[i]].chapters
        shift == PagesBefore(sources, i)
    IN [j \in 1..Len(chapters) |->
           XTCChapter(chapters[j].name, chapters[j].start_page + shift,
                      chapters[j].end_page + shift)]

\* C10: concatenating containers writes a container with every chapter of
\* every source, in source order, the chapters of the i-th source shifted by
\* the page count of the sources before it.
C10_ConcatenationKeepsChapters ==
    (Stopped /\ orMode = "xtc"
        /\ \A i \in 1..Len(orSources) : orSources[i] \in {"c.xtc", "d.xtc"}) =>
        /\ orPc = "done"
        /\ orOutput # <<>>
        /\ orWriter.chapters =
              Flatten([i \in 1..Len(orSources) |-> ShiftedChapters(orSources, i)])

\* Width and height in a frame's own header
FrameWidth(frame_data) == UnpackLE(Slice(frame_data, 4, 6))

FrameHeight(frame_data) == UnpackLE(Slice(frame_data, 6, 8))

\* Width and height in the index entry of page i (0-based) of a container
IndexEntry(file, i) == UnpackLE(Slice(file, 24, 32)) + i * INDEX_ENTRY_SIZE

IndexWidth(file, i) == UnpackLE(Slice(file, IndexEntry(file, i) + 12, IndexEntry(file, i) + 14))

IndexHeight(file, i) == UnpackLE(Slice(file, IndexEntry(file, i) + 14, IndexEntry(file, i) + 16))

\* C13: in the container the command wrote, every page's index entry holds
\* the width and height of that page's frame header, and all frames have
\* the width and height of the first.
C13_IndexMatchesFrameHeaders ==
    (orPc = "done" /\ orMode = "xtc" /\ orOutput # <<>>) =>
        \A i \in 1..Len(orFrames) :
            /\ IndexWidth(orOutput[1], i - 1) = FrameWidth(orFrames[i].data)
            /\ IndexHeight(orOutput[1], i - 1) = FrameHeight(orFrames[i].data)
            /\ FrameWidth(orFrames[i].data) = FrameWidth(orFrames[1].data)
            /\ FrameHeight(orFrames[i].data) = FrameHeight(orFrames[1].data)

\* C15: every frame asset in the command's frame list declares the format
\* that the first four bytes of its blob identify.
C15_DeclaredFormatIsMagic ==
    \A i \in 1..Len(orFrames) : orFrames[i].format = FrameFormat(orFrames[i].data)

\* C21: a format error raised while one input is converted aborts that
\* input only: the frames of the other inputs are in the frame list and
\* reach the output.
C21_FormatErrorAbortsOneInput ==
    (/\ Stopped
     /\ orMode = "single_pages"
     /\ \E i \in 1..Len(orSources) : orSources[i] = "u.xtc"
     /\ \E i \in 1..Len(orSources) : orSources[i] \in FrameFilePaths
     /\ \A i \in 1..Len(orSources) : orSources[i] \in FrameFilePaths \cup {"u.xtc"}) =>
        \A i \in 1..Len(orSources) :
            orSources[i] \in FrameFilePaths =>
                /\ \E k \in 1..Len(orFrames) : orFrames[k].data = FileBytes[orSources[i]]
                /\ \E k \in 1..Len(orOutput) : orOutput[k] = FileBytes[orSources[i]]

\* C22: when a page of a document fails to render, the document's
\* conversion raises, and none of its pages, the ones rendered before the
\* failure included, is on the worklist or in the frame list.
C22_FanOutAllOrNothing ==
    (orLast.asset.cls = "PDFAsset" /\ orLast.asset.path = "r.pdf") =>
        /\ orLast.outcome = "raised"
        /\ \A k \in 1..Len(orStack) :
              ~(orStack[k].cls = "ImageAsset" /\ orStack[k].image.src = "r.pdf")
        /\ \A k \in 1..Len(orFrames) : \A n \in 1..PdfFiles["r.pdf"].page_count :
              orFrames[k].data # EncodeFrame(Image("r.pdf", n), orCfg.format)

\* The document whose third page fails has been converted after another
\* input had given its frame.
C22_Witness ==
    /\ orLast.asset.cls = "PDFAsset"
    /\ orLast.asset.path = "r.pdf"
    /\ orLast.outcome = "raised"
    /\ Len(orFrames) = 1
    /\ ~render_page("r.pdf", 1).raised
    /\ render_page("r.pdf", 3).raised

\* The loop has ended: nothing is left on the worklist and no turn raised
LoopEnded == orPc # "raised" /\ orStack = <<>>

KnownSuffixes == {".pdf", ".png", ".jpg", ".jpeg", ".xtc", ".xth", ".xtg"}

\* C30 as stated: no popped asset is dropped (it goes to the frame list, is
\* replaced on the worklist by its result or children, or raises), and every
\* source either contributes an asset or fails the run.
C30_NoAssetDroppedEverySourceCounts ==
    /\ orLast.outcome # "dropped"
    /\ (orProcessed = 0 /\ orPc = "running") => Len(orStack) = Len(orSources)

\* C30: no popped asset is dropped, and every source with a suffix that
\* create_asset knows contributes one asset; a source with another suffix
\* contributes none and the run goes on.
C30_NoAssetDropped ==
    /\ orLast.outcome # "dropped"
    /\ (orProcessed = 0 /\ orPc = "running") =>
          Len(orStack) =
             Cardinality({i \in 1..Len(orSources) : Suffix(orSources[i]) \in KnownSuffixes})

\* A run with a source of unknown suffix has finished with the frame of the
\* other source.
C30_Witness ==
    /\ orSources = <<"n.txt", "f.xth">>
    /\ orLast.outcome = "frame"
    /\ orPc = "done"
    /\ Len(orOutput) = 1

(***************************************************************************)
(* The chapter builder harness.                                            *)
(***************************************************************************)
\* What one page may carry
PageTocs ==
    {<<>>,
     <<TocEntry("A", 1, 1)>>,
     <<TocEntry("B", 2, 1), TocEntry("C", 2, 2)>>,
     <<TocEntry("C", 3, 2), TocEntry("A", 3, 1)>>}

PageTocLists == UNION {[1..n -> PageTocs] : n \in 0..MaxChapterPages}

InitChapters ==
    /\ chPages \in PageTocLists
    /\ chOut = <<>>
    /\ chPc = "start"
    /\ PagesIdle /\ PathIdle /\ XtcIdle /\ AssetsIdle /\ OrchIdle /\ disk = NoFiles /\ FramesIdle /\ DecodeIdle /\ DitherIdle

BuildChapters ==
    /\ chPc = "start"
    /\ chOut' = extract_chapters_from_toc(chPages)
    /\ chPc' = "done"
    /\ UNCHANGED chPages
    /\ UNCHANGED <<pagesVars, pathVars, xtcVars, assetVars, orchVars, disk, frameVars, decVars, ditherVars>>

NextChapters == BuildChapters

SpecChapters == InitChapters /\ [][NextChapters]_vars

\* The 1-based positions of the pages that carry an entry
MarkerPages(tocs) == {i \in 1..Len(tocs) : tocs[i] # <<>>}

\* The j-th marker page, counting from 1
NthMarker(tocs, j) ==
    CHOOSE m \in MarkerPages(tocs) : Cardinality({x \in MarkerPages(tocs) : x <= m}) = j

\* C11: the builder returns one chapter per page that carries an entry, named
\* by that page's first entry, starting at the page's 0-based index and ending
\* just before the next such page (at the last page for the last chapter); no
\* entries give no chapters; the chapters ascend and do not overlap.
C11_ChapterPerMarkerPage ==
    chPc = "done" =>
        /\ Len(chOut) = Cardinality(MarkerPages(chPages))
        /\ \A j \in 1..Len(chOut) :
              /\ chOut[j].name = chPages[NthMarker(chPages, j)][1].title
              /\ chOut[j].start_page = NthMarker(chPages, j) - 1
              /\ chOut[j].end_page = IF j < Len(chOut)
                                     THEN NthMarker(chPages, j + 1) - 2
                                     ELSE Len(chPages) - 1
              /\ chOut[j].start_page <= chOut[j].end_page
        /\ \A j \in 1..Len(chOut), k \in 1..Len(chOut) :
              j < k => chOut[j].end_page < chOut[k].start_page

\* Three pages, the second without entries and the third with two: two chapters
C11_Witness ==
    /\ chPc = "done"
    /\ chPages = <<<<TocEntry("A", 1, 1)>>, <<>>,
                   <<TocEntry("B", 2, 1), TocEntry("C", 2, 2)>>>>
    /\ chOut = <<XTCChapter("A", 0, 1), XTCChapter("B", 2, 2)>>

(***************************************************************************)
(* The frame codec harness: encode a grid of levels (XTH) or bits (XTG),   *)
(* then decode the blob.                                                   *)
(***************************************************************************)
InitFrames ==
    /\ fcFormat \in {"xth", "xtg"}
    /\ \E width \in 1..MaxWidth, height \in 1..MaxHeight, a \in 0..3, b \in 0..3, c \in 0..3 :
          /\ fcWriter = [width |-> width, height |-> height]
          /\ fcGrid = IF fcFormat = "xth" THEN LevelGrid(width, height, a, b, c)
                      ELSE BitGrid(width, height, a, b, c)
    /\ fcBlob = <<>>
    /\ fcImage = DecodeRaised
    /\ fcPc = "start"
    /\ PagesIdle /\ PathIdle /\ XtcIdle /\ AssetsIdle /\ OrchIdle /\ disk = NoFiles /\ ChapIdle /\ DecodeIdle /\ DitherIdle

\* writer.encode(image), from the quantized grid on
FrameEncode ==
    /\ fcPc = "start"
    /\ fcBlob' = IF fcFormat = "xth" THEN XTHWriter_encode(fcWriter, fcGrid)
                 ELSE XTGWriter_encode(fcWriter, fcGrid)
    /\ fcPc' = "encoded"
    /\ UNCHANGED <<fcFormat, fcWriter, fcGrid, fcImage>>
    /\ UNCHANGED <<pagesVars, pathVars, xtcVars, assetVars, orchVars, disk, chapVars, decVars, ditherVars>>

\* reader.decode(data)
FrameDecode ==
    /\ fcPc = "encoded"
    /\ fcImage' = IF fcFormat = "xth" THEN XTHReader_decode(fcBlob)
                  ELSE XTGReader_decode(fcBlob)
    /\ fcPc' = "decoded"
    /\ UNCHANGED <<fcFormat, fcWriter, fcGrid, fcBlob>>
    /\ UNCHANGED <<pagesVars, pathVars, xtcVars, assetVars, orchVars, disk, chapVars, decVars, ditherVars>>

NextFrames == FrameEncode \/ FrameDecode

SpecFrames == InitFrames /\ [][NextFrames]_vars

\* C16: decoding an encoded XTH frame gives an image of the grid's width and
\* height whose pixel (x, y) is 85 times the grid's level at (x, y).
C16_XthRoundTrip ==
    (fcPc = "decoded" /\ fcFormat = "xth") =>
        /\ ~fcImage.raised
        /\ fcImage.width = fcWriter.width
        /\ fcImage.height = fcWriter.height
        /\ \A row \in 1..fcWriter.height, col \in 1..fcWriter.width :
              fcImage.pixels[row][col] = 85 * fcGrid[row][col]

\* A grid of two columns and nine rows (a second, partial group of rows)
\* holding all four levels has been encoded and decoded.
C16_Witness ==
    /\ fcPc = "decoded" /\ fcFormat = "xth"
    /\ fcWriter = [width |-> 2, height |-> 9]
    /\ {fcGrid[row][col] : row \in 1..9, col \in 1..2} = 0..3
    /\ fcGrid[9][1] = 1 /\ fcGrid[9][2] = 2
    /\ fcImage.pixels[9][1] = 85 /\ fcImage.pixels[9][2] = 170

\* C17: decoding an encoded XTG frame gives an image of the grid's width and
\* height whose pixel (x, y) is 255 where the bit is 1 and 0 where it is 0.
C17_XtgRoundTrip ==
    (fcPc = "decoded" /\ fcFormat = "xtg") =>
        /\ ~fcImage.raised
        /\ fcImage.width = fcWriter.width
        /\ fcImage.height = fcWriter.height
        /\ \A row \in 1..fcWriter.height, col \in 1..fcWriter.width :
              fcImage.pixels[row][col] = IF fcGrid[row][col] = 1 THEN 255 ELSE 0

\* A grid of nine columns (a second, partial byte per row) and two rows with
\* both bit values in the ninth column has been encoded and decoded.
C17_Witness ==
    /\ fcPc = "decoded" /\ fcFormat = "xtg"
    /\ fcWriter = [width |-> 9, height |-> 2]
    /\ fcGrid[1][9] = 1 /\ fcGrid[2][9] = 0
    /\ fcImage.pixels[1][9] = 255 /\ fcImage.pixels[2][9] = 0

\* ceil(a / b), by remainder
CeilDiv(a, b) == IF a % b = 0 THEN a \div b ELSE (a \div b) + 1

\* The payload-size field of a frame header
HeaderDataSize(blob) == UnpackLE(Slice(blob, 10, 14))

\* C18: an encoded XTH frame has a payload of 2 * ceil(height/8) * width
\* bytes, an encoded XTG frame one of ceil(width/8) * height bytes; the
\* header's payload-size field is the payload's length and the blob is 22
\* bytes longer than the payload.
C18_PayloadSize ==
    (fcPc \in {"encoded", "decoded"}) =>
        /\ Len(fcBlob) - 22 =
              IF fcFormat = "xth" THEN 2 * CeilDiv(fcWriter.height, 8) * fcWriter.width
              ELSE CeilDiv(fcWriter.width, 8) * fcWriter.height
        /\ HeaderDataSize(fcBlob) = Len(fcBlob) - 22

\* An XTH frame of 3 x 9 pixels has been encoded into 22 + 12 bytes.
C18_Witness ==
    /\ fcPc = "encoded" /\ fcFormat = "xth"
    /\ fcWriter = [width |-> 3, height |-> 9]
    /\ Len(fcBlob) = 34
    /\ HeaderDataSize(fcBlob) = 12

(***************************************************************************)
(* The decoder harness: a buffer (a well-formed frame or container, one    *)
(* cut short at any length, one with another format's magic, a container   *)
(* of another version) is handed to one of the three decoders.             *)
(***************************************************************************)
XthSamples ==
    {XTHWriter_encode([width |-> 2, height |-> 9], LevelGrid(2, 9, 1, 1, 1)),
     XTHWriter_encode([width |-> 1, height |-> 1], LevelGrid(1, 1, 0, 0, 2))}

XtgSamples ==
    {XTGWriter_encode([width |-> 9, height |-> 2], BitGrid(9, 2, 0, 2, 2)),
     XTGWriter_encode([width |-> 1, height |-> 1], BitGrid(1, 1, 0, 0, 2))}

XtcSamples ==
    {XTCWriter_write(XTCWriter_init(2, 9, 0, XTCMetadata(<<>>, <<>>, 0), <<>>),
                     <<blob, blob>>).file : blob \in XthSamples}
    \cup {XTCWriter_write(XTCWriter_init(9, 2, 0, XTCMetadata(<<84>>, <<>>, 0),
                                         <<XTCChapter(<<97>>, 0, 0)>>),
                          <<blob>>).file : blob \in XtgSamples}

\* The buffer cut to its first n bytes, for every n
Cuts(data) == {Take(data, n) : n \in 0..Len(data)}

\* The buffer with its first four bytes replaced
WithMagic(data, magic) == magic \o Drop(data, 4)

\* The container with the version field replaced
WithVersion(data, version) == Take(data, 4) \o PackLE(version, 2) \o Drop(data, 6)

OtherMagics == {XTH_MAGIC_BYTES, XTG_MAGIC_BYTES, PackLE(XTC_MAGIC, 4), <<0, 0, 0, 0>>}

Damaged(samples) ==
    UNION {Cuts(data) : data \in samples}
    \cup {WithMagic(data, magic) : data \in samples, magic \in OtherMagics}

InitDecode ==
    /\ dcKind \in {"xth", "xtg", "xtc"}
    /\ dcData \in Damaged(XthSamples) \cup Damaged(XtgSamples) \cup Damaged(XtcSamples)
                  \cup {WithVersion(data, 512) : data \in XtcSamples}
    /\ dcOut = DecodeRaised
    /\ dcPc = "start"
    /\ PagesIdle /\ PathIdle /\ XtcIdle /\ AssetsIdle /\ OrchIdle /\ disk = NoFiles /\ ChapIdle /\ FramesIdle /\ DitherIdle

\* XTHReader().decode(data)
DecodeXth ==
    /\ dcPc = "start" /\ dcKind = "xth"
    /\ dcOut' = XTHReader_decode(dcData)
    /\ dcPc' = "decoded"
    /\ UNCHANGED <<dcKind, dcData>>
    /\ UNCHANGED <<pagesVars, pathVars, xtcVars, assetVars, orchVars, disk, chapVars, frameVars, ditherVars>>

\* XTGReader().decode(data)
DecodeXtg ==
    /\ dcPc = "start" /\ dcKind = "xtg"
    /\ dcOut' = XTGReader_decode(dcData)
    /\ dcPc' = "decoded"
    /\ UNCHANGED <<dcKind, dcData>>
    /\ UNCHANGED <<pagesVars, pathVars, xtcVars, assetVars, orchVars, disk, chapVars, frameVars, ditherVars>>

\* XTCReader().decode(data)
DecodeXtc ==
    /\ dcPc = "start" /\ dcKind = "xtc"
    /\ dcOut' = XTCReader_decode(XTCReader_init, dcData)
    /\ dcPc' = "decoded"
    /\ UNCHANGED <<dcKind, dcData>>
    /\ UNCHANGED <<pagesVars, pathVars, xtcVars, assetVars, orchVars, disk, chapVars, frameVars, ditherVars>>

NextDecode == DecodeXth \/ DecodeXtg \/ DecodeXtc

SpecDecode == InitDecode /\ [][NextDecode]_vars

\* The four bytes a format's buffers start with
MagicBytes(kind) ==
    IF kind = "xth" THEN <<88, 84, 72, 0>>
    ELSE IF kind = "xtg" THEN <<88, 84, 71, 0>>
    ELSE <<88, 84, 67, 0>>

\* What a decoder handed back: pixels of an image or a frame list
Handed(kind, out) == IF kind = "xtc" THEN out.frames ELSE out.pixels

\* C19: each of the three decoders raises, and hands back no image and no
\* frame list, whenever the first four bytes of the buffer are not its own
\* format's magic.
C19_BadMagicRaises ==
    (dcPc = "decoded" /\ Slice(dcData, 0, 4) # MagicBytes(dcKind)) =>
        /\ dcOut.raised
        /\ Handed(dcKind, dcOut) = <<>>

\* The container decoder has been handed a whole, well-formed XTH frame and
\* has raised.
C19_Witness ==
    /\ dcPc = "decoded" /\ dcKind = "xtc"
    /\ dcData \in XthSamples
    /\ dcOut.raised

\* The payload bytes a frame header's dimensions call for
PayloadNeeded(kind, data) ==
    LET width == UnpackLE(Slice(data, 4, 6))
        height == UnpackLE(Slice(data, 6, 8))
    IN IF kind = "xth" THEN 2 * CeilDiv(height, 8) * width
       ELSE CeilDiv(width, 8) * height

\* An index entry of the container runs past the end of the buffer
EntryPastEnd(data) ==
    \E i \in 0..(UnpackLE(Slice(data, 6, 8)) - 1) :
        LET entry_offset == UnpackLE(Slice(data, 24, 32)) + i * INDEX_ENTRY_SIZE
        IN \/ Len(data) < entry_offset + INDEX_ENTRY_SIZE
           \/ Len(data) < UnpackLE(Slice(data, entry_offset, entry_offset + 8))
                          + UnpackLE(Slice(data, entry_offset + 8, entry_offset + 12))

\* The buffer starts with the decoder's magic and is cut short, or is a
\* container of a version other than 0x0100.
TruncatedOrUnsupported(kind, data) ==
    /\ Slice(data, 0, 4) = MagicBytes(kind)
    /\ IF kind = "xtc"
       THEN \/ Len(data) < HEADER_SIZE
            \/ UnpackLE(Slice(data, 4, 6)) # XTC_VERSION
            \/ EntryPastEnd(data)
       ELSE \/ Len(data) < 22
            \/ Len(data) - 22 < PayloadNeeded(kind, data)

\* C20: a truncated buffer and a container of an unsupported version make
\* the decoder raise; no image and no frame list is handed back.
C20_TruncationSurfaced ==
    (dcPc = "decoded" /\ TruncatedOrUnsupported(dcKind, dcData)) =>
        /\ dcOut.raised
        /\ Handed(dcKind, dcOut) = <<>>


(***************************************************************************)
(* algo/dithering.py.  An array is [dtype, grid], the grid a sequence of   *)
(* rows; it holds integers for uint8 and sixteenths for float32.  The      *)
(* float32 arithmetic is done in sixteenths, a product rounded down to a   *)
(* sixteenth.  Arrays live in a heap, a sequence indexed by identity, so   *)
(* that two names of one array are told from an array and its copy.        *)
(***************************************************************************)
MaxGrayWidth == 2

MaxGrayHeight == 2

\* gray_array.astype(np.float32): a new array
astype_float32(heap, id) ==
    [heap |-> Append(heap,
                 [dtype |-> "float32",
                  grid |-> [r \in 1..Len(heap[id].grid) |->
                               [c \in 1..Len(heap[id].grid[r]) |->
                                   heap[id].grid[r][c] * 16]]]),
     id |-> Len(heap) + 1]

\* The variant that works on the array it was handed.
array_alias(heap, id) == [heap |-> heap, id |-> id]

\* gray_array.copy(): a new array
array_copy(heap, id) == [heap |-> Append(heap, heap[id]), id |-> Len(heap) + 1]

\* The variant that diffuses the whole error whatever the strength.
WeightFull(k, dither_strength) == k * 16

\* w = (k/16) * dither_strength, in 256ths (the strength is in sixteenths)
Weight(k, dither_strength) == k * dither_strength

\* What the sample at (dy, dx) from the current one receives: error * w
Share(error, dy, dx, dither_strength) ==
    CASE dy = 0 /\ dx = 1 -> (error * Weight(7, dither_strength)) \div 256
      [] dy = 1 /\ dx = -1 -> (error * Weight(3, dither_strength)) \div 256
      [] dy = 1 /\ dx = 0 -> (error * Weight(5, dither_strength)) \div 256
      [] dy = 1 /\ dx = 1 -> (error * Weight(1, dither_strength)) \div 256
      [] OTHER -> 0

\* The if/elif chain: the first threshold the value is below decides
Quantize(old_val, thresholds) ==
    IF \E k \in 1..Len(thresholds) : old_val < thresholds[k]
    THEN (CHOOSE k \in 1..Len(thresholds) :
             /\ old_val < thresholds[k]
             /\ \A j \in 1..(k - 1) : ~(old_val < thresholds[j])) - 1
    ELSE Len(thresholds)

\* The two loops over y and x, from sample n (row by row) on: quantize the
\* sample, write its level, add the error's shares to the neighbours
RECURSIVE FloydSteinbergLoop(_, _, _, _, _, _)
FloydSteinbergLoop(working, result, n, thresholds, values, dither_strength) ==
    IF n >= Len(working) * Len(working[1])
    THEN [working |-> working, result |-> result]
    ELSE \* y, x, level, error bound once
         The({FloydSteinbergLoop(
                  [r \in 1..Len(working) |-> [c \in 1..Len(working[1]) |->
                      working[r][c] + Share(at[4], r - at[1], c - at[2], dither_strength)]],
                  [result EXCEPT ![at[1]][at[2]] = at[3]],
                  n + 1, thresholds, values, dither_strength) :
              at \in {The({<<y, x, level, working[y][x] - values[level + 1] * 16>> :
                           y \in {(n \div Len(working[1])) + 1},
                           x \in {(n % Len(working[1])) + 1},
                           level \in {Quantize(
                               working[(n \div Len(working[1])) + 1][(n % Len(working[1])) + 1],
                               thresholds)}})}})

\* Both cores: copy the array, run the loop on the copy, return the levels.
\* [heap, result]
floyd_steinberg_core(heap, id, thresholds, values, dither_strength) ==
    The({The({[heap |-> [copied.heap EXCEPT ![copied.id].grid = done.working],
               result |-> done.result] :
              done \in {FloydSteinbergLoop(
                           copied.heap[copied.id].grid,
                           [r \in 1..Len(heap[id].grid) |->
                               [c \in 1..Len(heap[id].grid[1]) |-> 0]],
                           0, thresholds, values, dither_strength)}}) :
         copied \in {array_copy(heap, id)}})

floyd_steinberg_core_2level(heap, id, threshold, dither_strength) ==
    floyd_steinberg_core(heap, id, <<threshold>>, <<0, 255>>, dither_strength)

floyd_steinberg_core_4level(heap, id, threshold1, threshold2, threshold3, dither_strength) ==
    floyd_steinberg_core(heap, id, <<threshold1, threshold2, threshold3>>,
                         <<0, 85, 170, 255>>, dither_strength)

\* A levels argument: an int or a tuple of thresholds
IntLevels(n) == [kind |-> "int", n |-> n, t |-> <<>>]

TupleLevels(t) == [kind |-> "tuple", n |-> 0, t |-> t]

DitherRaised(heap) == [raised |-> TRUE, heap |-> heap, result |-> <<>>]

\* floyd_steinberg_dither(gray_array, levels, dither_strength):
\* [raised, heap, result]
floyd_steinberg_dither(heap, id, levels, dither_strength) ==
    The({IF levels.kind = "int" /\ levels.n \notin {2, 4} THEN DitherRaised(working.heap)
         ELSE IF levels.kind = "tuple" /\ Len(levels.t) \notin {1, 3}
         THEN DitherRaised(working.heap)
         ELSE The({[raised |-> FALSE, heap |-> out.heap, result |-> out.result] :
                   out \in
                     {CASE levels.kind = "int" /\ levels.n = 2 ->
                             floyd_steinberg_core_2level(working.heap, working.id, 128 * 16,
                                                         dither_strength)
                        [] levels.kind = "int" /\ levels.n = 4 ->
                             floyd_steinberg_core_4level(working.heap, working.id, 85 * 16,
                                                         170 * 16, 255 * 16, dither_strength)
                        [] levels.kind = "tuple" /\ Len(levels.t) = 1 ->
                             floyd_steinberg_core_2level(working.heap, working.id,
                                                         levels.t[1] * 16, dither_strength)
                        [] OTHER ->
                             floyd_steinberg_core_4level(working.heap, working.id,
                                                         levels.t[1] * 16, levels.t[2] * 16,
                                                         levels.t[3] * 16, dither_strength)}}) :
         working \in {IF heap[id].dtype # "float32" THEN astype_float32(heap, id)
                      ELSE [heap |-> heap, id |-> id]}})

\* core/xth.py, _convert_to_4level with dithering disabled: the four masked
\* assignments in their order, a later one overwriting an earlier one
convert_to_4level_plain(gray_array, thresholds) ==
    [r \in 1..Len(gray_array) |-> [c \in 1..Len(gray_array[r]) |->
        LET v == gray_array[r][c]
        IN IF v >= thresholds[3] THEN 3
           ELSE IF v >= thresholds[2] /\ v < thresholds[3] THEN 2
           ELSE IF v >= thresholds[1] /\ v < thresholds[2] THEN 1
           ELSE 0]]

\* core/xtg.py, _convert_to_1bit with dithering disabled
convert_to_1bit_plain(gray_array, threshold) ==
    [r \in 1..Len(gray_array) |-> [c \in 1..Len(gray_array[r]) |->
        IF gray_array[r][c] >= threshold THEN 1 ELSE 0]]

(***************************************************************************)
(* The quantizer harness: one array, one call.                             *)
(***************************************************************************)
\* Gray values around the default thresholds
GraySamples == <<0, 84, 85, 100, 169, 170, 254, 255>>

\* Grids of gray values: sample number (a*x + b*y + c) mod 8 at pixel (x, y)
GrayGrid(width, height, a, b, c) ==
    [row \in 1..height |-> [col \in 1..width |->
        GraySamples[((a * (col - 1) + b * (row - 1) + c) % 8) + 1]]]

LevelSettings ==
    {IntLevels(2), IntLevels(4), IntLevels(3),
     TupleLevels(<<128>>), TupleLevels(<<100>>),
     TupleLevels(<<85, 170, 255>>), TupleLevels(<<100, 100, 200>>),
     TupleLevels(<<170, 85, 255>>), TupleLevels(<<85, 170>>)}

\* dither_strength 0.0, 0.5 and 1.0
Strengths == {0, 8, 16}

NoDitherResult == [raised |-> FALSE, result |-> <<>>]

InitDither ==
    /\ \E width \in 1..MaxGrayWidth, height \in 1..MaxGrayHeight,
          a \in 0..2, b \in 0..1, c \in 0..7, dtype \in {"uint8", "float32"} :
          dtInput = [dtype |-> dtype,
                     grid |-> [row \in 1..height |-> [col \in 1..width |->
                                  IF dtype = "uint8"
                                  THEN GrayGrid(width, height, a, b, c)[row][col]
                                  ELSE GrayGrid(width, height, a, b, c)[row][col] * 16]]]
    /\ dtHeap = <<dtInput>>
    /\ dtLevels \in LevelSettings
    /\ dtStrength \in Strengths
    /\ dtOut = NoDitherResult
    /\ dtPc = "start"
    /\ PagesIdle /\ PathIdle /\ XtcIdle /\ AssetsIdle /\ OrchIdle /\ disk = NoFiles /\ ChapIdle /\ FramesIdle /\ DecodeIdle

\* result = floyd_steinberg_dither(gray_array, levels, dither_strength)
DitherCall ==
    /\ dtPc = "start"
    /\ \E out \in {floyd_steinberg_dither(dtHeap, 1, dtLevels, dtStrength)} :
          /\ dtHeap' = out.heap
          /\ dtOut' = [raised |-> out.raised, result |-> out.result]
    /\ dtPc' = "done"
    /\ UNCHANGED <<dtInput, dtLevels, dtStrength>>
    /\ UNCHANGED <<pagesVars, pathVars, xtcVars, assetVars, orchVars, disk, chapVars, frameVars, decVars>>

NextDither == DitherCall

SpecDither == InitDither /\ [][NextDither]_vars

\* The thresholds a levels argument stands for
ThresholdsOf(levels) ==
    IF levels.kind = "tuple" THEN levels.t
    ELSE IF levels.n = 2 THEN <<128>> ELSE <<85, 170, 255>>

Ascending(thresholds) ==
    \A k \in 1..(Len(thresholds) - 1) : thresholds[k] <= thresholds[k + 1]

\* The sample of the caller's array at (row, col), in sixteenths
Sample16(row, col) ==
    IF dtInput.dtype = "uint8" THEN dtInput.grid[row][col] * 16
    ELSE dtInput.grid[row][col]

\* C24: with ascending thresholds and strength 0 the quantizer returns for
\* every sample the plain thresholding level (as many levels up as there are
\* thresholds the sample is not below), which is what the writers' paths
\* without dithering give.
C24_StrengthZeroIsThresholding ==
    (dtPc = "done" /\ ~dtOut.raised /\ dtStrength = 0
        /\ Ascending(ThresholdsOf(dtLevels))) =>
        \A thresholds \in {ThresholdsOf(dtLevels)} :
            /\ \A row \in 1..Len(dtInput.grid), col \in 1..Len(dtInput.grid[1]) :
                  dtOut.result[row][col] =
                     Cardinality({k \in 1..Len(thresholds) :
                                     Sample16(row, col) >= thresholds[k] * 16})
            /\ dtInput.dtype = "uint8" =>
                  dtOut.result =
                     IF Len(thresholds) = 3
                     THEN convert_to_4level_plain(dtInput.grid, thresholds)
                     ELSE convert_to_1bit_plain(dtInput.grid, thresholds[1])

\* A 2 x 2 array of bytes was quantized to four levels with strength 0 and
\* two of its samples fell into different levels.
C24_Witness ==
    /\ dtPc = "done"
    /\ ~dtOut.raised
    /\ dtStrength = 0
    /\ dtInput.dtype = "uint8"
    /\ dtLevels = TupleLevels(<<85, 170, 255>>)
    /\ Len(dtInput.grid) = 2
    /\ Len(dtInput.grid[1]) = 2
    /\ dtOut.result[1][1] # dtOut.result[2][2]
    /\ dtOut.result = convert_to_4level_plain(dtInput.grid, <<85, 170, 255>>)

\* C25: after floyd_steinberg_dither has returned or raised, the caller's
\* array is what it was at the call.
C25_InputNotMutated ==
    dtPc = "done" => dtHeap[1] = dtInput

\* A float32 array was dithered with full strength: the loop wrote to its
\* copy, and the caller's array is as it was.
C25_Witness ==
    /\ dtPc = "done"
    /\ ~dtOut.raised
    /\ dtInput.dtype = "float32"
    /\ dtStrength = 16
    /\ Len(dtHeap) = 2
    /\ dtHeap[2] # dtInput
    /\ dtHeap[1] = dtInput

====
